---- MODULE Spec2Model ----
(***************************************************************************)
(* A model of one node of the LoRa TDMA mesh firmware                      *)
(* (src/firmware/firmware.ino, src/firmware/settings_template.h).          *)
(*                                                                         *)
(* The node is the event loop loop(): top of loop (commands, button,       *)
(* gateway cycle counter, stratum timeout, auto-send), processing phase,   *)
(* RX phase 1, TX phase, RX phase 2.  The environment supplies the frames  *)
(* the radio delivers (as the 48 bytes a sender's transmitUnifiedPacket    *)
(* builds, with the RSSI/SNR the radio reports), the serial and UDP        *)
(* commands, the button interrupt and the result of radio.Send.            *)
(*                                                                         *)
(* Build configuration modelled: ENABLE_WIFI == 1, ENABLE_LATENCY_CALC ==  *)
(* 1, DEBUG_MODE == DEBUG_MODE_WIFI_MONITOR (PDR tracking and the UDP      *)
(* command task compiled in).  IS_REFERENCE is chosen in Init.             *)
(***************************************************************************)
EXTENDS Integers, Sequences, FiniteSets, TLC

(***************************************************************************)
(* Program constants                                                       *)
(***************************************************************************)
FIXED_PACKET_LENGTH == 48
MAX_NEIGHBOURS_IN_PACKET == 6
MAX_NEIGHBOURS == 10
MAX_INACTIVE_CYCLES == 5
FORWARD_QUEUE_SIZE == 8
AUTO_SEND_INTERVAL_CYCLES == 6
CYCLE_VALIDATION_THRESHOLD == 3
Nslot == 8
LATENCY_CACHE_SIZE == 20
Tslot_us == 500000
Tprocessing_us == 500000
\* Tslot_us - Tpacket_us - TtxDelay_us - TrxDelay_us, with Tpacket_us = 125340
slotOffset_us == 367660
SENSOR_DATA_LENGTH == 6
MAX_TRACKING_HOPS == 3
MAX_PDR_NODES == 10
RSSI_THRESHOLD_DBM == -115
MIN_RSSI_THRESHOLD == -100
SYNC_VALID_CYCLES == 5
STRATUM_INHERIT_DELTA == 1
STRATUM_GATEWAY == 0
STRATUM_DIRECT == 1
STRATUM_INDIRECT == 2
STRATUM_LOCAL == 3
DATA_MODE_NONE == 0
DATA_MODE_OWN == 1
DATA_MODE_FORWARD == 2
ADR_BROADCAST == 0
CMD_ID_AND_POS == 0
\* 0x7F, the "unknown" hop distance
HOP_UNKNOWN == 127
\* the sender id the sync logic treats as the gateway (senderId == 1)
GATEWAY_ID == 1
\* the initial value of lastReceivedCycle and of the cycle history (no cycle)
NO_CYCLE == -1
\* the initial value of the static lastCycleForStratum
NO_STRATUM_CYCLE == 255

(***************************************************************************)
(* Bounds of the model                                                     *)
(***************************************************************************)
\* messages a node mints (messageIdCounter) before the behaviour is cut off
MaxMessages == 2
\* frames the radio delivers within one RX phase
MaxRxPerPhase == 1
\* updatePdrStats calls in the PDR specification
MaxPdrUpdates == 300
\* frames per RX phase in the relay specification
MaxRelayRxPerPhase == 2
\* data frames per origin the gateway accounts for in the gateway specification
MaxSinkFrames == 3
\* messages waiting in the forward queue in the RSSI-floor specification
MaxFloorQueued == 2
\* messages a relay accepts for forwarding in the relay-sink specification
MaxRelayed == 3
\* calls of enqueueForward in the queue specification
MaxEnqueueCalls == 10
\* data frames the gateway handles in the latency specification
MaxLatencyFrames == 3
\* messages the leaf originates in the lossless-channel specification
MaxLeafMessages == 8

(***************************************************************************)
(* Configuration of the node under study and of its environment            *)
(***************************************************************************)
\* DEVICE_ID and SLOT_DEVICE of the non-gateway build (the gateway is id 1)
DEVICE_ID == 3
SLOT_DEVICE == 1
\* a peer node heard on the air (id 2), and a node further away that
\* originates data (id 5)
PEER_ID == DEVICE_ID - 1
FAR_ID == DEVICE_ID + 2
\* RSSI the radio reports: above MIN_RSSI_THRESHOLD, and below RSSI_THRESHOLD_DBM
StrongRssi == MIN_RSSI_THRESHOLD + 10
WeakRssi == RSSI_THRESHOLD_DBM - 5
\* getCurrentTimeUs() at a sender and, later, at the node (microseconds)
SenderNow == 1000
NodeNow == SenderNow + 1000
\* the six payload bytes "T25H99" snprintf leaves in sensorDataToSend
SensorReading == <<84, 50, 53, 72, 57, 57>>

(***************************************************************************)
(* Fixed-width integer helpers                                             *)
(***************************************************************************)
U8(x) == x % 256
U16(x) == x % 65536
HiByte(x) == (x \div 256) % 256
LoByte(x) == x % 256
Min(a, b) == IF a < b THEN a ELSE b

(***************************************************************************)
(* Frame codec: transmitUnifiedPacket's txBuffer and processRxPacket's     *)
(* parse of rxBuffer.  A buffer is a function 0..47 -> 0..255.             *)
(*                                                                         *)
(* Timestamps (int64 microseconds) are modelled as naturals below 2^31, so *)
(* the four high bytes of the big-endian field are 0.                      *)
(***************************************************************************)
ByteIndex == 0..(FIXED_PACKET_LENGTH - 1)

\* byte k (0 = most significant) of the 8-byte big-endian timestamp ts
TimestampByte(ts, k) ==
  IF k < 4 THEN 0
  ELSE IF k = 4 THEN (ts \div 16777216) % 256
  ELSE IF k = 5 THEN (ts \div 65536) % 256
  ELSE IF k = 6 THEN (ts \div 256) % 256
  ELSE ts % 256

\* (x.isLocalized << 7) | x.hoppingDistance as a uint8 (hop is at most 0x7F)
HopInfoByte(isLocalized, hop) == U8(isLocalized * 128 + (hop % 128))

\* uint8_t neighborsToSend = min(neighbourCount, MAX_NEIGHBOURS_IN_PACKET)
NeighborsToSend(count) == Min(count, MAX_NEIGHBOURS_IN_PACKET)

\* one byte of the neighbour section written by the loop at byte 12; nb is the
\* list neighbours[neighbourIndices[0 .. neighborsToSend-1]]
NeighbourSectionByte(nb, i) ==
  LET e == nb[((i - 12) \div 4) + 1]
      r == (i - 12) % 4
  IN  IF r = 0 THEN HiByte(e.id)
      ELSE IF r = 1 THEN LoByte(e.id)
      ELSE IF r = 2 THEN U8(e.slotIndex)
      ELSE HopInfoByte(e.isLocalized, e.hoppingDistance)

\* the timestamp transmitUnifiedPacket embeds at bytes 40..47 (0: bytes are
\* left as memset left them); now is getCurrentTimeUs()
EmbeddedTimestamp(d, timeSynced, now) ==
  IF timeSynced /\ d.dataMode = DATA_MODE_OWN THEN now
  ELSE IF d.dataMode = DATA_MODE_FORWARD /\ d.txTimestampUs > 0 THEN d.txTimestampUs
  ELSE 0

\* one byte of the data section (28..47), written when dataMode != NONE.
\* dataToSend is filled by the function but never copied into txBuffer.
DataSectionByte(d, ts, i) ==
  IF i = 28 THEN HiByte(d.origSender)
  ELSE IF i = 29 THEN LoByte(d.origSender)
  ELSE IF i = 30 THEN HiByte(d.msgId)
  ELSE IF i = 31 THEN LoByte(d.msgId)
  ELSE IF i = 32 THEN U8(d.hopCount)
  ELSE IF i = 33 THEN U8(d.dataLen)
  ELSE IF i < 40 THEN
    (IF (i - 34) % 2 = 0 THEN HiByte(d.tracking[((i - 34) \div 2) + 1])
                         ELSE LoByte(d.tracking[((i - 34) \div 2) + 1]))
  ELSE TimestampByte(ts, i - 40)

\* txBuffer as transmitUnifiedPacket leaves it before radio.Send.
\*   h  : [id, slotIndex, isLocalized, hoppingDistance, syncedCycle, syncStratum]
\*   nb : the advertised neighbours (sequence, at most 6)
\*   d  : [dataMode, hopDecisionTarget, origSender, msgId, hopCount, dataLen,
\*         dataToSend, tracking, txTimestampUs]
TxBufferBytes(h, timeSynced, nb, d, now) ==
  LET n  == Len(nb)
      ts == EmbeddedTimestamp(d, timeSynced, now)
  IN [i \in ByteIndex |->
       IF i = 0 THEN HiByte(ADR_BROADCAST)
       ELSE IF i = 1 THEN LoByte(ADR_BROADCAST)
       ELSE IF i = 2 THEN CMD_ID_AND_POS
       ELSE IF i = 3 THEN HiByte(h.id)
       ELSE IF i = 4 THEN LoByte(h.id)
       ELSE IF i = 5 THEN U8(h.slotIndex)
       ELSE IF i = 6 THEN HopInfoByte(h.isLocalized, h.hoppingDistance)
       ELSE IF i = 7 THEN U8(h.syncedCycle * 8) + (n % 8)
       ELSE IF i = 8 THEN d.dataMode
       ELSE IF i = 9 THEN HiByte(d.hopDecisionTarget)
       ELSE IF i = 10 THEN LoByte(d.hopDecisionTarget)
       ELSE IF i = 11 THEN (h.syncStratum % 4) * 64 + (IF timeSynced THEN 1 ELSE 0)
       ELSE IF d.dataMode # DATA_MODE_NONE /\ i >= 28 THEN DataSectionByte(d, ts, i)
       ELSE IF i < 12 + 4 * n THEN NeighbourSectionByte(nb, i)
       ELSE 0]

\* the data fields of a frame without data
NoData ==
  [dataMode |-> DATA_MODE_NONE, hopDecisionTarget |-> 0, origSender |-> 0,
   msgId |-> 0, hopCount |-> 0, dataLen |-> 0, dataToSend |-> << >>,
   tracking |-> <<0, 0, 0>>, txTimestampUs |-> 0]

\* the int64 read big-endian from bytes 40..47 (high four bytes are 0 in the model)
ExtractTimestamp(b) ==
  b[44] * 16777216 + b[45] * 65536 + b[46] * 256 + b[47]

\* processRxPacket: PARSE HEADER, PARSE SENDER'S NEIGHBORS and PARSE DATA SECTION
ParseRxBuffer(b) ==
  LET raw == b[7] % 8
      num == IF raw > MAX_NEIGHBOURS_IN_PACKET THEN MAX_NEIGHBOURS_IN_PACKET ELSE raw
      len == IF b[33] > SENSOR_DATA_LENGTH THEN SENSOR_DATA_LENGTH ELSE b[33]
  IN [addr |-> b[0] * 256 + b[1],
      cmd |-> b[2],
      senderId |-> b[3] * 256 + b[4],
      senderSlot |-> b[5],
      senderHop |-> b[6] % 128,
      senderLocalized |-> (b[6] \div 128) % 2,
      senderCycle |-> (b[7] \div 8) % 32,
      numNeighborsInPacket |-> num,
      dataMode |-> b[8],
      hopDecisionTarget |-> b[9] * 256 + b[10],
      senderStratum |-> (b[11] \div 64) % 4,
      senderTimeSynced |-> (b[11] % 2) = 1,
      neighbors |-> [k \in 1..num |->
                      [id |-> b[12 + 4 * (k - 1)] * 256 + b[13 + 4 * (k - 1)],
                       slotIndex |-> b[14 + 4 * (k - 1)],
                       isLocalized |-> (b[15 + 4 * (k - 1)] \div 128) % 2,
                       hoppingDistance |-> b[15 + 4 * (k - 1)] % 128]],
      origSender |-> b[28] * 256 + b[29],
      msgId |-> b[30] * 256 + b[31],
      hopCount |-> b[32],
      dataLen |-> len,
      tracking |-> [k \in 1..MAX_TRACKING_HOPS |-> b[34 + 2 * (k - 1)] * 256 + b[35 + 2 * (k - 1)]],
      sensorDataReceived |-> [k \in 1..len |-> b[40 + (k - 1)]],
      txTimestampUs |-> ExtractTimestamp(b)]

(***************************************************************************)
(* State.  Display, logging, statistics that nothing reads (txPacketCount, *)
(* rxPacketCount, network totals) and the neighbour fields the firmware    *)
(* only writes (cycleHistory, cyclesSequential, syncStratum, syncedCycle,  *)
(* the stored neighbour-of-neighbour lists, isBidirectional) are left out. *)
(***************************************************************************)
VARIABLES
  isReference,           \* IS_REFERENCE == 1 (the gateway build)
  myInfo,                \* MyNodeInfo
  tdmaEnabled,           \* volatile bool tdmaEnabled
  buttonPressed,         \* volatile bool buttonPressed, set by buttonISR
  timeSynced,            \* NTP sync flag set in setup()
  neighbours,            \* NeighbourInfo neighbours[MAX_NEIGHBOURS]
  neighbourIndices,      \* uint8_t neighbourIndices[MAX_NEIGHBOURS]
  neighbourCount,        \* uint8_t neighbourCount
  forwardQueue,          \* forwardQueue[] (slots), forwardQueueHead/Tail/Count
  hasSensorDataToSend,   \* pending own payload flag
  sensorDataToSend,      \* pending own payload
  messageIdCounter,
  ownMessageOrigSender,
  ownMessageId,
  autoSendCounter,
  cycleValidated,
  cycleValidationCount,
  lastReceivedCycle,
  lastCycleForStratum,   \* static in loop()
  pdrStats,              \* PdrNodeStats pdrStats[MAX_PDR_NODES]
  pdrNodeCount,
  txBuffer,              \* the frame radio.Send is sending (all zero when the
                         \* radio is idle: nothing reads the buffer after Send)
  pc,                    \* position of loop(): "loop", "processing", "rx1", "tx",
                         \* "send" (inside radio.Send), "rx2"
  rxInPhase,             \* frames delivered in the current RX phase
  \* observers (history the claims speak about; the firmware does not read them)
  dequeuesThisCycle,     \* dequeueForward successes since the cycle started
  sendsThisCycle,        \* radio.Send calls since the cycle started
  sendFailed,            \* radio.Send of the current cycle returned false
  sinceOrigin,           \* cycles started since the last minting of a message,
                         \* counted up to AUTO_SEND_INTERVAL_CYCLES
  lastOrigin,            \* the minting of the current pass: [minted, gap, cycle]
  resumed,               \* a START re-enabled the scheduler after a STOP and the
                         \* cycle validation has not been earned since
  codec,                 \* codec specification: encoder input, bytes, parse
  pdrUpdates,            \* PDR specification: updatePdrStats calls made
  route,                 \* forward-path specification: a message on its way from
                         \* the leaf to the gateway
  queueLog,              \* queue specification: what enqueueForward and
                         \* dequeueForward were given and returned
  rxWindow,              \* timing specification: Tduration_us and Tremaining_us
                         \* of the RX loop of loop(), and its last pass
  latency,               \* latency specification: totalLatencyCalculations and
                         \* the latencyRecords ring of the gateway
  net                    \* network specification: myInfo and lastCycleForStratum
                         \* of two non-gateway nodes, and the gateway's reach

nodeVars == <<isReference, myInfo, tdmaEnabled, buttonPressed, timeSynced>>
nbrVars == <<neighbours, neighbourIndices, neighbourCount>>
ownVars == <<hasSensorDataToSend, sensorDataToSend, messageIdCounter,
             ownMessageOrigSender, ownMessageId>>
cycleVars == <<autoSendCounter, cycleValidated, cycleValidationCount,
               lastReceivedCycle, lastCycleForStratum>>
pdrVars == <<pdrStats, pdrNodeCount>>
loopVars == <<pc, rxInPhase>>
obsVars == <<dequeuesThisCycle, sendsThisCycle, sendFailed, sinceOrigin, lastOrigin>>
auxVars == <<codec, pdrUpdates, route, queueLog, rxWindow, latency, net>>
vars == <<nodeVars, nbrVars, forwardQueue, ownVars, cycleVars, pdrVars, txBuffer,
          loopVars, obsVars, resumed, auxVars>>

NbrIndex == 0..(MAX_NEIGHBOURS - 1)
QueueIndex == 0..(FORWARD_QUEUE_SIZE - 1)
PdrIndex == 0..(MAX_PDR_NODES - 1)

\* NeighbourInfo as default-initialised (hoppingDistance = 0x7F)
InitNeighbour ==
  [id |-> 0, slotIndex |-> 0, isLocalized |-> 0, hoppingDistance |-> HOP_UNKNOWN,
   rssi |-> 0, snr |-> 0, amIListedAsNeighbour |-> FALSE, activityCounter |-> 0]

\* NeighbourInfo after memset(&neighbours[i], 0, sizeof(NeighbourInfo))
ZeroNeighbour ==
  [id |-> 0, slotIndex |-> 0, isLocalized |-> 0, hoppingDistance |-> 0,
   rssi |-> 0, snr |-> 0, amIListedAsNeighbour |-> FALSE, activityCounter |-> 0]

\* a zero-initialised ForwardMessage (global storage)
ZeroForwardMessage ==
  [originalSender |-> 0, messageId |-> 0, hopCount |-> 0, dataLen |-> 0,
   data |-> << >>, tracking |-> <<0, 0, 0>>, txTimestampUs |-> 0]

EmptyForwardQueue ==
  [slots |-> [i \in QueueIndex |-> ZeroForwardMessage], head |-> 0, tail |-> 0, count |-> 0]

\* a zero-initialised PdrNodeStats; pdr is kept as the exact ratio num/den
\* of the float the firmware stores (100.0 is num 100, den 1)
ZeroPdrNodeStats ==
  [nodeId |-> 0, lastSeqReceived |-> 0, expectedCount |-> 0, receivedCount |-> 0,
   gapCount |-> 0, pdrNum |-> 0, pdrDen |-> 1, initialized |-> FALSE]

(***************************************************************************)
(* FIFO forwarding queue                                                   *)
(***************************************************************************)
\* enqueueForward without its test for a full queue
enqueueForwardUnchecked(q, msg) ==
  [q EXCEPT !.slots[q.head] = msg,
            !.head = (q.head + 1) % FORWARD_QUEUE_SIZE,
            !.count = U8(q.count + 1)]

\* bool enqueueForward(ForwardMessage* msg): the queue afterwards
enqueueForward(q, msg) ==
  IF q.count >= FORWARD_QUEUE_SIZE THEN q
  ELSE [q EXCEPT !.slots[q.head] = msg,
                 !.head = (q.head + 1) % FORWARD_QUEUE_SIZE,
                 !.count = q.count + 1]

\* bool dequeueForward(ForwardMessage* msg): the queue afterwards
dequeueForward(q) ==
  IF q.count = 0 THEN q
  ELSE [q EXCEPT !.tail = (q.tail + 1) % FORWARD_QUEUE_SIZE,
                 !.count = q.count - 1]

\* dequeueForward copying out the entry enqueued last
dequeueForwardMsgNewest(q) ==
  q.slots[(q.head + FORWARD_QUEUE_SIZE - 1) % FORWARD_QUEUE_SIZE]

\* the message dequeueForward copies out
dequeueForwardMsg(q) == q.slots[q.tail]

(***************************************************************************)
(* Routing                                                                 *)
(***************************************************************************)
RECURSIVE selectBestNextHopFrom(_, _, _, _, _, _)
\* the loop of selectBestNextHop from position i with the best candidate so far
selectBestNextHopFrom(nbrs, indices, count, myHop, i, best) ==
  IF i >= count THEN best
  ELSE
    LET n == nbrs[indices[i]]
        currentGoodRssi == n.rssi > MIN_RSSI_THRESHOLD
        bestGoodRssi == best.rssi > MIN_RSSI_THRESHOLD
        skip == \/ n.rssi < RSSI_THRESHOLD_DBM
                \/ ~n.amIListedAsNeighbour
                \/ n.hoppingDistance >= myHop
                \/ n.hoppingDistance = HOP_UNKNOWN
        shouldSelect ==
          IF best.id = 0 THEN TRUE
          ELSE IF currentGoodRssi /\ ~bestGoodRssi THEN TRUE
          ELSE IF ~currentGoodRssi /\ bestGoodRssi THEN FALSE
          ELSE IF n.hoppingDistance < best.hop THEN TRUE
          ELSE IF n.hoppingDistance = best.hop THEN
            \/ n.rssi > best.rssi
            \/ (n.rssi = best.rssi /\ n.snr > best.snr)
          ELSE FALSE
        next == IF ~skip /\ shouldSelect
                THEN [id |-> n.id, rssi |-> n.rssi, snr |-> n.snr, hop |-> n.hoppingDistance]
                ELSE best
    IN selectBestNextHopFrom(nbrs, indices, count, myHop, i + 1, next)

\* uint16_t selectBestNextHop()
selectBestNextHop(nbrs, indices, count, myHop) ==
  selectBestNextHopFrom(nbrs, indices, count, myHop, 0,
                        [id |-> 0, rssi |-> -200, snr |-> -128, hop |-> 255]).id

\* void recalculateHopCount(): the new myInfo.hoppingDistance (non-gateway build)
MinCandidateHop(nbrs) ==
  LET cands == {nbrs[i].hoppingDistance + 1 :
                  i \in {j \in NbrIndex : /\ nbrs[j].id # 0
                                          /\ nbrs[j].hoppingDistance # HOP_UNKNOWN
                                          /\ nbrs[j].rssi >= RSSI_THRESHOLD_DBM}}
      below == {c \in cands : c < HOP_UNKNOWN}
  IN IF below = {} THEN HOP_UNKNOWN
     ELSE CHOOSE c \in below : \A e \in below : c <= e

recalculateHopCount(hop, nbrs) ==
  LET minHop == MinCandidateHop(nbrs)
  IN IF minHop # hop /\ minHop # HOP_UNKNOWN THEN minHop ELSE hop

(***************************************************************************)
(* Neighbour maintenance                                                   *)
(***************************************************************************)
\* the ageing step with the eviction test > in place of >=
AgedNeighbourStrict(n) ==
  IF n.id = 0 THEN n
  ELSE IF U8(n.activityCounter + 1) > MAX_INACTIVE_CYCLES THEN ZeroNeighbour
  ELSE IF n.rssi < RSSI_THRESHOLD_DBM THEN ZeroNeighbour
  ELSE [n EXCEPT !.activityCounter = U8(n.activityCounter + 1)]

\* the first loop of updateNeighbourStatus: age and evict
AgedNeighbour(n) ==
  IF n.id = 0 THEN n
  ELSE IF U8(n.activityCounter + 1) >= MAX_INACTIVE_CYCLES THEN ZeroNeighbour
  ELSE IF n.rssi < RSSI_THRESHOLD_DBM THEN ZeroNeighbour
  ELSE [n EXCEPT !.activityCounter = U8(n.activityCounter + 1)]

AgedNeighbours(nbrs) == [i \in NbrIndex |-> AgedNeighbour(nbrs[i])]

RECURSIVE OccupiedFrom(_, _)
\* the occupied slots of the table from slot i on, in ascending slot order
OccupiedFrom(nbrs, i) ==
  IF i >= MAX_NEIGHBOURS THEN << >>
  ELSE IF nbrs[i].id # 0 THEN <<i>> \o OccupiedFrom(nbrs, i + 1)
  ELSE OccupiedFrom(nbrs, i + 1)

RECURSIVE BubblePass(_, _, _, _)
\* the inner loop of the sort: j from the given position up to limit - 1 (1-based seq)
BubblePass(nbrs, s, j, limit) ==
  IF j >= limit THEN s
  ELSE
    LET a == s[j + 1]
        b == s[j + 2]
        t == IF nbrs[a].hoppingDistance > nbrs[b].hoppingDistance
             THEN [s EXCEPT ![j + 1] = b, ![j + 2] = a]
             ELSE s
    IN BubblePass(nbrs, t, j + 1, limit)

RECURSIVE BubbleSort(_, _, _)
\* the outer loop of the sort: i from the given position up to count - 2
BubbleSort(nbrs, s, i) ==
  IF i >= Len(s) - 1 THEN s
  ELSE BubbleSort(nbrs, BubblePass(nbrs, s, 0, Len(s) - i - 1), i + 1)

\* the rebuilt index list, sorted by hop distance
SortedIndices(nbrs) == BubbleSort(nbrs, OccupiedFrom(nbrs, 0), 0)

\* void updateNeighbourStatus(): [neighbours, neighbourIndices, neighbourCount]
updateNeighbourStatus(nbrs, indices) ==
  LET aged == AgedNeighbours(nbrs)
      sorted == SortedIndices(aged)
  IN [neighbours |-> aged,
      neighbourIndices |-> [i \in NbrIndex |-> IF i < Len(sorted) THEN sorted[i + 1]
                                                ELSE indices[i]],
      neighbourCount |-> Len(sorted)]

(***************************************************************************)
(* processRxPacket                                                         *)
(***************************************************************************)
\* the search loops taking the first slot for a new sender when none is free
FindSenderOverwrite(nbrs, senderId) ==
  LET same == {i \in NbrIndex : nbrs[i].id = senderId}
      free == {i \in NbrIndex : nbrs[i].id = 0}
      first(S) == CHOOSE i \in S : \A j \in S : i <= j
  IN IF same # {} THEN [found |-> TRUE, idx |-> first(same), isNew |-> FALSE]
     ELSE IF free # {} THEN [found |-> TRUE, idx |-> first(free), isNew |-> TRUE]
     ELSE [found |-> TRUE, idx |-> 0, isNew |-> TRUE]

\* the two search loops: the sender's slot, else the first free slot
FindSender(nbrs, senderId) ==
  LET same == {i \in NbrIndex : nbrs[i].id = senderId}
      free == {i \in NbrIndex : nbrs[i].id = 0}
      first(S) == CHOOSE i \in S : \A j \in S : i <= j
  IN IF same # {} THEN [found |-> TRUE, idx |-> first(same), isNew |-> FALSE]
     ELSE IF free # {} THEN [found |-> TRUE, idx |-> first(free), isNew |-> TRUE]
     ELSE [found |-> FALSE, idx |-> 0, isNew |-> FALSE]

\* the am-I-listed flag computed from the sender's advertised neighbours
AmIListed(p, myId) ==
  \E k \in 1..p.numNeighborsInPacket : p.neighbors[k].id = myId

\* the table entry of the sender after the frame is recorded
HeardNeighbour(p, rssi, snr, myId) ==
  [id |-> p.senderId, slotIndex |-> p.senderSlot, isLocalized |-> p.senderLocalized,
   hoppingDistance |-> p.senderHop, rssi |-> rssi, snr |-> snr,
   amIListedAsNeighbour |-> AmIListed(p, myId), activityCounter |-> 0]

\* the sync logic inheriting the sender's stratum as it is (no delta, no cap)
hierarchicalSyncNoDelta(mi, p) ==
  IF p.senderId = GATEWAY_ID THEN
    [mi EXCEPT !.syncStratum = STRATUM_DIRECT, !.syncSource = p.senderId,
               !.syncValidCounter = SYNC_VALID_CYCLES]
  ELSE IF p.senderStratum < mi.syncStratum /\ p.senderStratum < STRATUM_LOCAL THEN
    [mi EXCEPT !.syncStratum = p.senderStratum, !.syncSource = p.senderId,
               !.syncValidCounter = SYNC_VALID_CYCLES]
  ELSE IF p.senderStratum <= mi.syncStratum /\ mi.syncSource = p.senderId THEN
    [mi EXCEPT !.syncValidCounter = SYNC_VALID_CYCLES]
  ELSE mi

\* HIERARCHICAL SYNC LOGIC (non-gateway build): myInfo afterwards
hierarchicalSync(mi, p) ==
  IF p.senderId = GATEWAY_ID THEN
    [mi EXCEPT !.syncStratum = STRATUM_DIRECT, !.syncSource = p.senderId,
               !.syncValidCounter = SYNC_VALID_CYCLES]
  ELSE IF p.senderStratum < mi.syncStratum /\ p.senderStratum < STRATUM_LOCAL THEN
    [mi EXCEPT !.syncStratum = Min(p.senderStratum + STRATUM_INHERIT_DELTA, STRATUM_INDIRECT),
               !.syncSource = p.senderId,
               !.syncValidCounter = SYNC_VALID_CYCLES]
  ELSE IF p.senderStratum <= mi.syncStratum /\ mi.syncSource = p.senderId THEN
    [mi EXCEPT !.syncValidCounter = SYNC_VALID_CYCLES]
  ELSE mi

\* HOP DISTANCE CALCULATION on reception (non-gateway build): the new hop
hopFromNeighbour(hop, n) ==
  IF n.hoppingDistance # HOP_UNKNOWN /\ n.rssi >= RSSI_THRESHOLD_DBM
     /\ U8(n.hoppingDistance + 1) < hop
  THEN U8(n.hoppingDistance + 1)
  ELSE hop

\* the cycle synchronisation keeping its count on a non-sequential cycle
cycleSyncKeepCount(cv, syncedCycle, hop, n, senderCycle) ==
  IF n.hoppingDistance < hop /\ n.rssi >= RSSI_THRESHOLD_DBM THEN
    LET v == IF cv.cycleValidated THEN cv
             ELSE IF cv.lastReceivedCycle = NO_CYCLE THEN
               [cycleValidated |-> FALSE, cycleValidationCount |-> 1,
                lastReceivedCycle |-> senderCycle]
             ELSE IF senderCycle = (cv.lastReceivedCycle + 1) % AUTO_SEND_INTERVAL_CYCLES THEN
               [cycleValidated |-> U8(cv.cycleValidationCount + 1) >= CYCLE_VALIDATION_THRESHOLD,
                cycleValidationCount |-> U8(cv.cycleValidationCount + 1),
                lastReceivedCycle |-> senderCycle]
             ELSE [cv EXCEPT !.lastReceivedCycle = senderCycle]
    IN [cv |-> v, syncedCycle |-> senderCycle]
  ELSE [cv |-> cv, syncedCycle |-> syncedCycle]

\* CYCLE SYNCHRONIZATION (non-gateway build), hop being the node's hop after
\* the hop calculation: the validation state and myInfo.syncedCycle afterwards
cycleSync(cv, syncedCycle, hop, n, senderCycle) ==
  IF n.hoppingDistance < hop /\ n.rssi >= RSSI_THRESHOLD_DBM THEN
    LET v == IF cv.cycleValidated THEN cv
             ELSE IF cv.lastReceivedCycle = NO_CYCLE THEN
               [cycleValidated |-> FALSE, cycleValidationCount |-> 1,
                lastReceivedCycle |-> senderCycle]
             ELSE IF senderCycle = (cv.lastReceivedCycle + 1) % AUTO_SEND_INTERVAL_CYCLES THEN
               [cycleValidated |-> U8(cv.cycleValidationCount + 1) >= CYCLE_VALIDATION_THRESHOLD,
                cycleValidationCount |-> U8(cv.cycleValidationCount + 1),
                lastReceivedCycle |-> senderCycle]
             ELSE
               [cycleValidated |-> FALSE, cycleValidationCount |-> 1,
                lastReceivedCycle |-> senderCycle]
    IN [cv |-> v, syncedCycle |-> senderCycle]
  ELSE [cv |-> cv, syncedCycle |-> syncedCycle]

\* the ForwardMessage built with the node's id always written to the path
relayMessageAlwaysTracked(p, myId) ==
  [originalSender |-> p.origSender,
   messageId |-> p.msgId,
   hopCount |-> U8(p.hopCount + 1),
   dataLen |-> p.dataLen,
   data |-> p.sensorDataReceived,
   tracking |-> [p.tracking EXCEPT ![Min(p.hopCount + 1, MAX_TRACKING_HOPS)] = myId],
   txTimestampUs |-> p.txTimestampUs]

\* the ForwardMessage the relay branch builds from a data frame addressed to it
relayMessage(p, myId) ==
  [originalSender |-> p.origSender,
   messageId |-> p.msgId,
   hopCount |-> U8(p.hopCount + 1),
   dataLen |-> p.dataLen,
   data |-> p.sensorDataReceived,
   tracking |-> IF p.hopCount < MAX_TRACKING_HOPS
                THEN [p.tracking EXCEPT ![p.hopCount + 1] = myId]
                ELSE p.tracking,
   txTimestampUs |-> p.txTimestampUs]

\* the relay branch: the queue after a data frame is handled by a non-gateway
relayDataFrame(q, p, myId) ==
  IF p.hopDecisionTarget = myId THEN enqueueForward(q, relayMessage(p, myId)) ELSE q

(***************************************************************************)
(* Gateway PDR accounting                                                  *)
(***************************************************************************)
\* the sequence distance updatePdrStats computes
SeqDiff(seqNum, last) ==
  IF seqNum > last THEN seqNum - last ELSE (256 - last) + seqNum

\* the update of an entry (uint16 counters)
updatedPdrEntry(st, nodeId, seqNum) ==
  IF ~st.initialized THEN
    [st EXCEPT !.nodeId = nodeId, !.lastSeqReceived = seqNum, !.receivedCount = 1,
               !.expectedCount = 1, !.initialized = TRUE, !.pdrNum = 100, !.pdrDen = 1]
  ELSE
    LET d == SeqDiff(seqNum, st.lastSeqReceived)
        rc == U16(st.receivedCount + 1)
        ec == U16(st.expectedCount + d)
        gc == IF d > 1 THEN U16(st.gapCount + (d - 1)) ELSE st.gapCount
    IN [st EXCEPT !.lastSeqReceived = seqNum, !.receivedCount = rc,
                  !.expectedCount = ec, !.gapCount = gc,
                  !.pdrNum = IF ec > 0 THEN rc * 100 ELSE st.pdrNum,
                  !.pdrDen = IF ec > 0 THEN ec ELSE st.pdrDen]

\* a freshly created entry
NewPdrEntry(nodeId) ==
  [ZeroPdrNodeStats EXCEPT !.nodeId = nodeId, !.pdrNum = 100, !.pdrDen = 1]

\* void updatePdrStats(nodeId, messageId): [pdrStats, pdrNodeCount] afterwards
updatePdrStats(stats, count, nodeId, messageId) ==
  LET seqNum == messageId % 256
      hits == {i \in PdrIndex : i < count /\ stats[i].nodeId = nodeId}
      nodeIndex == IF hits # {} THEN CHOOSE i \in hits : \A j \in hits : i <= j
                   ELSE IF count < MAX_PDR_NODES THEN count
                   ELSE -1
      created == hits = {} /\ count < MAX_PDR_NODES
      entry == IF created THEN NewPdrEntry(nodeId) ELSE stats[nodeIndex]
  IN IF nodeIndex = -1 THEN [pdrStats |-> stats, pdrNodeCount |-> count]
     ELSE [pdrStats |-> [stats EXCEPT ![nodeIndex] = updatedPdrEntry(entry, nodeId, seqNum)],
           pdrNodeCount |-> IF created THEN count + 1 ELSE count]

(***************************************************************************)
(* Commands                                                                *)
(***************************************************************************)
\* the neighbour table as resetTDMAState leaves it
ResetNeighbours == [i \in NbrIndex |-> InitNeighbour]

\* the hop distance resetTDMAState sets
ResetHop(ref) == IF ref THEN 0 ELSE HOP_UNKNOWN

(***************************************************************************)
(* Top of loop()                                                           *)
(***************************************************************************)
\* the countdown without the degradation to Local
stratumTimeoutKeep(mi, last) ==
  IF last = mi.syncedCycle THEN [mi |-> mi, last |-> last]
  ELSE IF mi.syncValidCounter > 0
  THEN [mi |-> [mi EXCEPT !.syncValidCounter = mi.syncValidCounter - 1],
        last |-> mi.syncedCycle]
  ELSE [mi |-> mi, last |-> mi.syncedCycle]

\* STRATUM TIMEOUT CHECK (non-gateway build): [mi, last] afterwards
stratumTimeout(mi, last) ==
  IF last = mi.syncedCycle THEN [mi |-> mi, last |-> last]
  ELSE IF mi.syncValidCounter > 0 THEN
    LET c == mi.syncValidCounter - 1
    IN [mi |-> IF c = 0 /\ mi.syncStratum < STRATUM_LOCAL
               THEN [mi EXCEPT !.syncValidCounter = c, !.syncStratum = STRATUM_LOCAL,
                               !.syncSource = 0]
               ELSE [mi EXCEPT !.syncValidCounter = c],
        last |-> mi.syncedCycle]
  ELSE [mi |-> mi, last |-> mi.syncedCycle]

\* the hasNextHop scan of the auto-send block
hasNextHop(nbrs, indices, count, myHop) ==
  \E i \in NbrIndex : /\ i < count
                      /\ nbrs[indices[i]].hoppingDistance < myHop
                      /\ nbrs[indices[i]].amIListedAsNeighbour

\* uint8_t myTurnCycle = (myInfo.id - 1) % AUTO_SEND_INTERVAL_CYCLES
myTurnCycle(id) == (id - 1) % AUTO_SEND_INTERVAL_CYCLES

\* the auto-send block mints a message
autoSendFires(mi, pending, validated, nbrs, indices, count) ==
  /\ mi.hoppingDistance # 0
  /\ mi.hoppingDistance # HOP_UNKNOWN
  /\ ~pending
  /\ validated
  /\ mi.syncedCycle = myTurnCycle(mi.id)
  /\ hasNextHop(nbrs, indices, count, mi.hoppingDistance)

\* a button handler that lets the gateway originate
buttonSendFiresAtGateway(mi, btnPressed) ==
  /\ btnPressed
  /\ mi.hoppingDistance # HOP_UNKNOWN

\* the button handler mints a message
buttonSendFires(mi, btnPressed) ==
  /\ btnPressed
  /\ mi.hoppingDistance # 0
  /\ mi.hoppingDistance # HOP_UNKNOWN

\* ownMessageId = (myInfo.id << 8) | (messageIdCounter & 0xFF)
MessageIdOf(id, counter) == U16(id * 256) + (counter % 256)

(***************************************************************************)
(* The environment: frames on the air                                      *)
(***************************************************************************)
\* the header fields a sender puts in its frame
Hdr(id, slot, loc, hop, cycle, stratum) ==
  [id |-> id, slotIndex |-> slot, isLocalized |-> loc, hoppingDistance |-> hop,
   syncedCycle |-> cycle, syncStratum |-> stratum]

\* a neighbour entry a sender advertises
Adv(id, slot, hop) ==
  [id |-> id, slotIndex |-> slot, isLocalized |-> 0, hoppingDistance |-> hop]

\* what the radio delivers: the parse of the bytes a sender built, RSSI and SNR
Heard(h, nb, d, rssi) ==
  [p |-> ParseRxBuffer(TxBufferBytes(h, TRUE, nb, d, SenderNow)), rssi |-> rssi, snr |-> 5]

\* the data section of a sender's frame
Data(mode, target, orig, seq, hops, path) ==
  [dataMode |-> mode, hopDecisionTarget |-> target, origSender |-> orig,
   msgId |-> MessageIdOf(orig, seq), hopCount |-> hops, dataLen |-> SENSOR_DATA_LENGTH,
   dataToSend |-> SensorReading, tracking |-> path, txTimestampUs |-> SenderNow]

\* beacons of a peer node (id 2, slot 2) that lists the node: at hop 1 with
\* stratum Direct or Local in cycles 2 and 3, with unknown hop, and too weak
PeerBeacons ==
  {Heard(Hdr(PEER_ID, 2, 0, 1, c, st), <<Adv(DEVICE_ID, SLOT_DEVICE, 2)>>, NoData, StrongRssi) :
     c \in {2, 3}, st \in {STRATUM_DIRECT, STRATUM_LOCAL}}
  \cup {Heard(Hdr(PEER_ID, 2, 0, HOP_UNKNOWN, 2, STRATUM_LOCAL),
              <<Adv(DEVICE_ID, SLOT_DEVICE, 2)>>, NoData, StrongRssi),
        Heard(Hdr(PEER_ID, 2, 0, 1, 2, STRATUM_DIRECT),
              <<Adv(DEVICE_ID, SLOT_DEVICE, 2)>>, NoData, WeakRssi)}

(***************************************************************************)
(* Initial state: after setup()                                            *)
(***************************************************************************)
InitMyInfo(ref) ==
  [id |-> IF ref THEN GATEWAY_ID ELSE DEVICE_ID,
   slotIndex |-> SLOT_DEVICE,
   isLocalized |-> IF ref THEN 1 ELSE 0,
   hoppingDistance |-> IF ref THEN 0 ELSE HOP_UNKNOWN,
   syncedCycle |-> 0,
   syncStratum |-> IF ref THEN STRATUM_GATEWAY ELSE STRATUM_LOCAL,
   syncSource |-> 0,
   syncValidCounter |-> 0]

NoOrigin == [minted |-> FALSE, gap |-> 0, cycle |-> 0]

IdleBuffer == [i \in ByteIndex |-> 0]

NoCodec == [input |-> << >>, bytes |-> << >>, parsed |-> << >>]

\* ResponderOutput as responder() initialises it (senderSlot 255, no adjustment)
NoRxOutput == [senderSlot |-> 255, adjustTiming |-> FALSE]

NoRoute == [stage |-> "idle"]

\* no latency sample taken yet (the sums and extrema are left out)
NoLatency ==
  [totalLatencyCalculations |-> 0, latencyRecordIndex |-> 0, latencyRecordCount |-> 0,
   latencyRecords |-> [i \in 0..(LATENCY_CACHE_SIZE - 1) |-> [messageId |-> 0, latencyUs |-> [s |-> 0, us |-> 0]]]]

\* the two non-gateway nodes of the network specification
NetNodes == {PEER_ID, DEVICE_ID}

\* both nodes after setup(), the gateway in range of the peer
NetAfterSetup ==
  [mi |-> [n \in NetNodes |-> [InitMyInfo(FALSE) EXCEPT !.id = n]],
   last |-> [n \in NetNodes |-> 255],
   gatewayInRange |-> TRUE]

\* before the first RX phase
NoRxWindow == [phase |-> "none", mySlot |-> 0, duration |-> 0, remaining |-> 0,
               last |-> "none", senderSlot |-> 255, elapsed |-> 0]

\* no call of the queue functions made yet
NoQueueLog == [calls |-> 0, accepted |-> << >>, returned |-> << >>, ok |-> TRUE]

InitNode(ref, synced) ==
  /\ isReference = ref
  /\ myInfo = InitMyInfo(ref)
  /\ tdmaEnabled = TRUE
  /\ buttonPressed = FALSE
  /\ timeSynced = synced
  /\ neighbours = [i \in NbrIndex |-> InitNeighbour]
  /\ neighbourIndices = [i \in NbrIndex |-> 0]
  /\ neighbourCount = 0
  /\ forwardQueue = EmptyForwardQueue
  /\ hasSensorDataToSend = FALSE
  /\ sensorDataToSend = << >>
  /\ messageIdCounter = 0
  /\ ownMessageOrigSender = 0
  /\ ownMessageId = 0
  /\ autoSendCounter = 0
  /\ cycleValidated = FALSE
  /\ cycleValidationCount = 0
  /\ lastReceivedCycle = NO_CYCLE
  /\ lastCycleForStratum = NO_STRATUM_CYCLE
  /\ pdrStats = [i \in PdrIndex |-> ZeroPdrNodeStats]
  /\ pdrNodeCount = 0
  /\ txBuffer = IdleBuffer
  /\ pc = "loop"
  /\ rxInPhase = 0
  /\ resumed = FALSE
  /\ route = NoRoute
  /\ queueLog = NoQueueLog
  /\ rxWindow = NoRxWindow
  /\ latency = NoLatency
  /\ net = NetAfterSetup
  /\ dequeuesThisCycle = 0
  /\ sendsThisCycle = 0
  /\ sendFailed = FALSE
  /\ sinceOrigin = AUTO_SEND_INTERVAL_CYCLES
  /\ lastOrigin = NoOrigin
  /\ codec = NoCodec
  /\ pdrUpdates = 0

Init == \E ref \in BOOLEAN : InitNode(ref, TRUE)

(***************************************************************************)
(* loop(): top of the pass                                                 *)
(***************************************************************************)
SerialCommands == {"NONE", "STOP", "START"}

\* checkSerialCommands, button read, gateway cycle counter, stratum timeout,
\* auto-send, button handler and the tdmaEnabled test
LoopTop(cmd) ==
  /\ pc = "loop"
  /\ messageIdCounter < MaxMessages
  /\ LET stop == cmd = "STOP"
         enabled == IF stop THEN FALSE ELSE IF cmd = "START" THEN TRUE ELSE tdmaEnabled
         \* resetTDMAState and the statistics reset of STOP
         mi0 == IF stop THEN [myInfo EXCEPT !.hoppingDistance = ResetHop(isReference)]
                ELSE myInfo
         asc0 == IF stop THEN 0 ELSE autoSendCounter
         validated == IF stop THEN FALSE ELSE cycleValidated
         mic0 == IF stop THEN 0 ELSE messageIdCounter
         nbrs == IF stop THEN ResetNeighbours ELSE neighbours
         count == IF stop THEN 0 ELSE neighbourCount
         \* gateway cycle counter
         asc1 == IF isReference
                 THEN (IF U8(asc0 + 1) >= AUTO_SEND_INTERVAL_CYCLES THEN 0 ELSE U8(asc0 + 1))
                 ELSE asc0
         mi1 == IF isReference THEN [mi0 EXCEPT !.syncedCycle = asc1] ELSE mi0
         \* stratum timeout
         st == IF isReference THEN [mi |-> mi1, last |-> lastCycleForStratum]
               ELSE stratumTimeout(mi1, lastCycleForStratum)
         mi2 == st.mi
         \* auto-send, then the button handler
         auto == autoSendFires(mi2, hasSensorDataToSend, validated, nbrs, neighbourIndices, count)
         btn == buttonSendFires(mi2, buttonPressed)
         mic1 == IF auto THEN U16(mic0 + 1) ELSE mic0
         mic2 == IF btn THEN U16(mic1 + 1) ELSE mic1
         since == IF enabled THEN Min(sinceOrigin + 1, AUTO_SEND_INTERVAL_CYCLES)
                  ELSE sinceOrigin
     IN /\ tdmaEnabled' = enabled
        /\ buttonPressed' = FALSE
        /\ myInfo' = mi2
        /\ autoSendCounter' = asc1
        /\ lastCycleForStratum' = st.last
        /\ cycleValidated' = validated
        /\ cycleValidationCount' = IF stop THEN 0 ELSE cycleValidationCount
        /\ lastReceivedCycle' = IF stop THEN NO_CYCLE ELSE lastReceivedCycle
        /\ neighbours' = nbrs
        /\ neighbourCount' = count
        /\ forwardQueue' = IF stop THEN [forwardQueue EXCEPT !.count = 0, !.head = 0, !.tail = 0]
                           ELSE forwardQueue
        /\ pdrStats' = IF stop THEN [i \in PdrIndex |-> ZeroPdrNodeStats] ELSE pdrStats
        /\ pdrNodeCount' = IF stop THEN 0 ELSE pdrNodeCount
        /\ messageIdCounter' = mic2
        /\ hasSensorDataToSend' = (hasSensorDataToSend \/ auto \/ btn)
        /\ sensorDataToSend' = IF auto \/ btn THEN SensorReading ELSE sensorDataToSend
        /\ ownMessageOrigSender' = IF auto \/ btn THEN mi2.id ELSE ownMessageOrigSender
        /\ ownMessageId' = IF auto \/ btn THEN MessageIdOf(mi2.id, mic2) ELSE ownMessageId
        /\ lastOrigin' = IF auto \/ btn
                         THEN [minted |-> TRUE, gap |-> IF auto /\ btn THEN 0 ELSE since,
                               cycle |-> mi2.syncedCycle]
                         ELSE NoOrigin
        /\ sinceOrigin' = IF auto \/ btn THEN 0 ELSE since
        /\ pc' = IF enabled THEN "processing" ELSE "loop"
        /\ dequeuesThisCycle' = IF enabled THEN 0 ELSE dequeuesThisCycle
        /\ sendsThisCycle' = IF enabled THEN 0 ELSE sendsThisCycle
        /\ resumed' = IF stop THEN FALSE
                       ELSE IF cmd = "START" /\ ~tdmaEnabled THEN TRUE
                       ELSE resumed
  /\ UNCHANGED <<isReference, timeSynced, neighbourIndices, txBuffer, rxInPhase,
                 sendFailed, auxVars>>

(***************************************************************************)
(* Processing phase                                                        *)
(***************************************************************************)
\* recalculateHopCount(); updateNeighbourStatus();
Processing ==
  /\ pc = "processing"
  /\ LET hop == IF isReference THEN myInfo.hoppingDistance
                ELSE recalculateHopCount(myInfo.hoppingDistance, neighbours)
         t == updateNeighbourStatus(neighbours, neighbourIndices)
     IN /\ myInfo' = [myInfo EXCEPT !.hoppingDistance = hop]
        /\ neighbours' = t.neighbours
        /\ neighbourIndices' = t.neighbourIndices
        /\ neighbourCount' = t.neighbourCount
  /\ pc' = "rx1"
  /\ rxInPhase' = 0
  /\ UNCHANGED <<isReference, tdmaEnabled, buttonPressed, timeSynced, forwardQueue,
                 ownVars, cycleVars, pdrVars, txBuffer, obsVars, resumed, auxVars>>

(***************************************************************************)
(* RX phases                                                               *)
(***************************************************************************)
\* the RSSI FILTER at the head of processRxPacket
rssiAlwaysAccepted(rssi) == FALSE

rssiRejected(rssi) == rssi < RSSI_THRESHOLD_DBM

\* what processRxPacket returns: 255 for a rejected frame, 0 for the gateway's
\* loopback exit, else the sender's slot; and responder()'s output for it
processRxPacketReturn(p, rssi, found, hop, myId) ==
  IF rssiRejected(rssi) THEN 255
  ELSE IF /\ found
          /\ p.dataMode \in {DATA_MODE_OWN, DATA_MODE_FORWARD}
          /\ hop = 0
          /\ p.origSender = myId THEN 0
  ELSE p.senderSlot

responderOutput(senderSlot) ==
  IF senderSlot # 255 THEN [senderSlot |-> senderSlot, adjustTiming |-> TRUE]
  ELSE NoRxOutput

\* the RX loops of loop() take the TIMING SYNCHRONIZATION branch for the
\* output of responder(); otherwise the window only shrinks by the time elapsed
timingAdjusted(out) == out.adjustTiming /\ out.senderSlot # 255

\* rxOutput of loop() when responder() delivers frame f in the current state
rxOutputFor(f) ==
  LET fs == FindSender(neighbours, f.p.senderId)
      mi1 == IF isReference THEN myInfo ELSE hierarchicalSync(myInfo, f.p)
      hop == IF isReference THEN mi1.hoppingDistance
             ELSE hopFromNeighbour(mi1.hoppingDistance,
                                   HeardNeighbour(f.p, f.rssi, f.snr, myInfo.id))
  IN responderOutput(processRxPacketReturn(f.p, f.rssi, fs.found, hop, myInfo.id))

\* responder() hands a frame to processRxPacket()
RxFrame(f, maxRx) ==
  /\ pc \in {"rx1", "rx2"}
  /\ rxInPhase < maxRx
  /\ f.p.senderId # myInfo.id
  /\ f.p.addr = ADR_BROADCAST \/ f.p.addr = myInfo.id
  /\ f.p.cmd = CMD_ID_AND_POS
  /\ rxInPhase' = rxInPhase + 1
  /\ LET p == f.p
         fs == FindSender(neighbours, p.senderId)
         accepted == ~rssiRejected(f.rssi) /\ fs.found
         n == HeardNeighbour(p, f.rssi, f.snr, myInfo.id)
         mi1 == IF isReference THEN myInfo ELSE hierarchicalSync(myInfo, p)
         hop == IF isReference THEN mi1.hoppingDistance
                ELSE hopFromNeighbour(mi1.hoppingDistance, n)
         cv == [cycleValidated |-> cycleValidated,
                cycleValidationCount |-> cycleValidationCount,
                lastReceivedCycle |-> lastReceivedCycle]
         cs == IF isReference THEN [cv |-> cv, syncedCycle |-> mi1.syncedCycle]
               ELSE cycleSync(cv, mi1.syncedCycle, hop, n, p.senderCycle)
         hasData == p.dataMode = DATA_MODE_OWN \/ p.dataMode = DATA_MODE_FORWARD
         sink == hasData /\ hop = 0 /\ p.origSender # myInfo.id
         relay == hasData /\ hop # 0
         pdr == updatePdrStats(pdrStats, pdrNodeCount, p.origSender, p.msgId)
     IN /\ IF ~accepted
           THEN UNCHANGED <<myInfo, nbrVars, forwardQueue, cycleValidated,
                            cycleValidationCount, lastReceivedCycle, pdrVars, resumed>>
           ELSE
             /\ resumed' = (resumed /\ ~cs.cv.cycleValidated)
             /\ neighbours' = [neighbours EXCEPT ![fs.idx] = n]
             /\ neighbourCount' = IF fs.isNew THEN U8(neighbourCount + 1) ELSE neighbourCount
             /\ UNCHANGED neighbourIndices
             /\ myInfo' = [mi1 EXCEPT !.hoppingDistance = hop, !.syncedCycle = cs.syncedCycle]
             /\ cycleValidated' = cs.cv.cycleValidated
             /\ cycleValidationCount' = cs.cv.cycleValidationCount
             /\ lastReceivedCycle' = cs.cv.lastReceivedCycle
             /\ pdrStats' = IF sink THEN pdr.pdrStats ELSE pdrStats
             /\ pdrNodeCount' = IF sink THEN pdr.pdrNodeCount ELSE pdrNodeCount
             /\ forwardQueue' = IF relay THEN relayDataFrame(forwardQueue, p, myInfo.id)
                                ELSE forwardQueue
  /\ UNCHANGED <<isReference, tdmaEnabled, buttonPressed, timeSynced, ownVars,
                 autoSendCounter, lastCycleForStratum, txBuffer, pc, obsVars, auxVars>>

\* the RX phase runs out of time
RxPhaseEnd ==
  /\ pc \in {"rx1", "rx2"}
  /\ pc' = IF pc = "rx1" THEN "tx" ELSE "loop"
  /\ rxInPhase' = 0
  /\ sendFailed' = FALSE
  /\ UNCHANGED <<nodeVars, nbrVars, forwardQueue, ownVars, cycleVars, pdrVars,
                 txBuffer, dequeuesThisCycle, sendsThisCycle, sinceOrigin, lastOrigin,
                 resumed, auxVars>>

(***************************************************************************)
(* TX phase: transmitUnifiedPacket()                                       *)
(***************************************************************************)
\* the two priority tests in the opposite order
txDataModeOwnFirst(q, pending, hop) ==
  IF pending /\ hop # HOP_UNKNOWN /\ hop # 0 THEN DATA_MODE_OWN
  ELSE IF q.count > 0 /\ hop # HOP_UNKNOWN /\ hop # 0 THEN DATA_MODE_FORWARD
  ELSE DATA_MODE_NONE

\* the data mode the two priority tests select
txDataMode(q, pending, hop) ==
  IF q.count > 0 /\ hop # HOP_UNKNOWN /\ hop # 0 THEN DATA_MODE_FORWARD
  ELSE IF pending /\ hop # HOP_UNKNOWN /\ hop # 0 THEN DATA_MODE_OWN
  ELSE DATA_MODE_NONE

\* Priority 1: the data fields of a frame that forwards the dequeued message m
forwardData(m, target) ==
  [dataMode |-> DATA_MODE_FORWARD, hopDecisionTarget |-> target,
   origSender |-> m.originalSender, msgId |-> m.messageId, hopCount |-> m.hopCount,
   dataLen |-> m.dataLen, dataToSend |-> m.data, tracking |-> m.tracking,
   txTimestampUs |-> m.txTimestampUs]

\* Priority 2: the data fields of a frame that carries the node's own payload
ownData(target, orig, msgId, payload, myId) ==
  [dataMode |-> DATA_MODE_OWN, hopDecisionTarget |-> target, origSender |-> orig,
   msgId |-> msgId, hopCount |-> 1,
   dataLen |-> Min(Len(payload), SENSOR_DATA_LENGTH),
   dataToSend |-> payload, tracking |-> <<myId, 0, 0>>, txTimestampUs |-> 0]

\* the data fields of the frame for the selected mode
txData(mode, q, target) ==
  IF mode = DATA_MODE_FORWARD THEN forwardData(dequeueForwardMsg(q), target)
  ELSE IF mode = DATA_MODE_OWN THEN
    ownData(target, ownMessageOrigSender, ownMessageId, sensorDataToSend, myInfo.id)
  ELSE NoData

\* the neighbours the frame advertises: neighbours[neighbourIndices[0..n-1]]
AdvertisedNeighbours ==
  [k \in 1..NeighborsToSend(neighbourCount) |-> neighbours[neighbourIndices[k - 1]]]

\* transmitUnifiedPacket() up to the call of radio.Send
Transmit ==
  /\ pc = "tx"
  /\ LET mode == txDataMode(forwardQueue, hasSensorDataToSend, myInfo.hoppingDistance)
         target == IF mode = DATA_MODE_NONE THEN 0
                   ELSE selectBestNextHop(neighbours, neighbourIndices, neighbourCount,
                                          myInfo.hoppingDistance)
         d == txData(mode, forwardQueue, target)
     IN /\ txBuffer' = TxBufferBytes(myInfo, timeSynced, AdvertisedNeighbours, d, NodeNow)
        /\ forwardQueue' = IF mode = DATA_MODE_FORWARD THEN dequeueForward(forwardQueue)
                           ELSE forwardQueue
        /\ hasSensorDataToSend' = IF mode = DATA_MODE_OWN THEN FALSE ELSE hasSensorDataToSend
        /\ dequeuesThisCycle' = IF mode = DATA_MODE_FORWARD THEN dequeuesThisCycle + 1
                                ELSE dequeuesThisCycle
  /\ sendsThisCycle' = sendsThisCycle + 1
  /\ pc' = "send"
  /\ UNCHANGED <<nodeVars, nbrVars, sensorDataToSend, messageIdCounter, ownMessageOrigSender,
                 ownMessageId, cycleVars, pdrVars, rxInPhase, sendFailed,
                 sinceOrigin, lastOrigin, resumed, auxVars>>

\* a TX phase that sends again when radio.Send fails
afterSendRetry(txSuccess) == IF txSuccess THEN "rx2" ELSE "tx"

\* where loop() continues when radio.Send returns txSuccess
afterSend(txSuccess) == "rx2"

\* radio.Send returns; the TX phase waits for the end of the slot
SendDone(txSuccess) ==
  /\ pc = "send"
  /\ pc' = afterSend(txSuccess)
  /\ txBuffer' = IdleBuffer
  /\ sendFailed' = ~txSuccess
  /\ UNCHANGED <<nodeVars, nbrVars, forwardQueue, ownVars, cycleVars, pdrVars,
                 rxInPhase, dequeuesThisCycle, sendsThisCycle, sinceOrigin,
                 lastOrigin, resumed, auxVars>>

(***************************************************************************)
(* Asynchronous inputs: the button interrupt and the UDP command task      *)
(***************************************************************************)
\* void IRAM_ATTR buttonISR()
ButtonISR ==
  /\ ~buttonPressed
  /\ buttonPressed' = TRUE
  /\ UNCHANGED <<isReference, myInfo, tdmaEnabled, timeSynced, nbrVars, forwardQueue,
                 ownVars, cycleVars, pdrVars, txBuffer, loopVars, obsVars, resumed,
                 auxVars>>

\* wifiMonitorTask: "STOP" / "TDMA_STOP" (tdmaEnabled = false; resetTDMAState())
UdpStop ==
  /\ tdmaEnabled
  /\ tdmaEnabled' = FALSE
  /\ myInfo' = [myInfo EXCEPT !.hoppingDistance = ResetHop(isReference)]
  /\ neighbours' = ResetNeighbours
  /\ neighbourCount' = 0
  /\ cycleValidated' = FALSE
  /\ cycleValidationCount' = 0
  /\ lastReceivedCycle' = NO_CYCLE
  /\ autoSendCounter' = 0
  /\ resumed' = FALSE
  /\ UNCHANGED <<isReference, buttonPressed, timeSynced, neighbourIndices, forwardQueue,
                 ownVars, lastCycleForStratum, pdrVars, txBuffer, loopVars, obsVars, auxVars>>

\* wifiMonitorTask: "START" / "TDMA_START"
UdpStart ==
  /\ ~tdmaEnabled
  /\ tdmaEnabled' = TRUE
  /\ resumed' = TRUE
  /\ UNCHANGED <<isReference, myInfo, buttonPressed, timeSynced, nbrVars, forwardQueue,
                 ownVars, cycleVars, pdrVars, txBuffer, loopVars, obsVars, auxVars>>

(***************************************************************************)
(* The node in a network that only beacons: neighbour discovery, hop and   *)
(* stratum, cycle validation, origination, the phases of a cycle           *)
(***************************************************************************)
\* the gateway's beacons (listing the node) and the peer's beacons
BeaconFrames ==
  {Heard(Hdr(GATEWAY_ID, 0, 1, 0, c, STRATUM_GATEWAY), <<Adv(DEVICE_ID, SLOT_DEVICE, 1)>>,
         NoData, StrongRssi) : c \in 0..2}
  \cup PeerBeacons

Next ==
  \/ \E cmd \in SerialCommands : LoopTop(cmd)
  \/ Processing
  \/ \E f \in BeaconFrames : RxFrame(f, MaxRxPerPhase)
  \/ RxPhaseEnd
  \/ Transmit
  \/ \E txSuccess \in BOOLEAN : SendDone(txSuccess)

Spec == Init /\ [][Next]_vars

(***************************************************************************)
(* The node as a relay: a peer addresses data frames to it                 *)
(***************************************************************************)
\* the peer (hop 2) forwards to the node a message of a far node whose path
\* already holds the node
RelayFrames ==
  {Heard(Hdr(PEER_ID, 2, 0, 2, 2, STRATUM_INDIRECT), <<Adv(DEVICE_ID, SLOT_DEVICE, 1)>>,
         Data(DATA_MODE_FORWARD, DEVICE_ID, FAR_ID, 9, 2, <<FAR_ID, DEVICE_ID, 0>>),
         StrongRssi)}

InitRelay == InitNode(FALSE, TRUE)

NextRelay ==
  \/ LoopTop("NONE")
  \/ Processing
  \/ \E f \in RelayFrames : RxFrame(f, MaxRelayRxPerPhase)
  \/ RxPhaseEnd
  \/ Transmit
  \/ \E txSuccess \in BOOLEAN : SendDone(txSuccess)
  \/ ButtonISR
  \/ UdpStop
  \/ UdpStart

SpecRelay == InitRelay /\ [][NextRelay]_vars

(***************************************************************************)
(* The frame codec on its own                                              *)
(***************************************************************************)
CodecHeaders ==
  {Hdr(GATEWAY_ID, 0, 1, 0, 5, STRATUM_GATEWAY),
   Hdr(DEVICE_ID, SLOT_DEVICE, 0, 1, 2, STRATUM_DIRECT),
   Hdr(PEER_ID, 2, 0, 2, 3, STRATUM_INDIRECT),
   Hdr(258, 7, 0, HOP_UNKNOWN, 0, STRATUM_LOCAL)}

\* advertised lists of 0, 1, 4 and 6 neighbours
CodecNeighbourLists ==
  {[k \in 1..n |-> Adv(10 + k, k, k)] : n \in {0, 1, 4, MAX_NEIGHBOURS_IN_PACKET}}

CodecData ==
  {NoData,
   [Data(DATA_MODE_OWN, GATEWAY_ID, DEVICE_ID, 7, 1, <<DEVICE_ID, 0, 0>>)
      EXCEPT !.txTimestampUs = 0],
   [Data(DATA_MODE_OWN, PEER_ID, DEVICE_ID, 255, 1, <<DEVICE_ID, 0, 0>>)
      EXCEPT !.txTimestampUs = 0, !.dataLen = 3, !.dataToSend = <<84, 50, 53>>],
   Data(DATA_MODE_FORWARD, GATEWAY_ID, FAR_ID, 9, 3, <<FAR_ID, PEER_ID, DEVICE_ID>>)}

\* the fields a receiver's parse yields, re-encoded by transmitUnifiedPacket
ReEncode(p) ==
  TxBufferBytes(Hdr(p.senderId, p.senderSlot, p.senderLocalized, p.senderHop,
                    p.senderCycle, p.senderStratum),
                p.senderTimeSynced, p.neighbors,
                [dataMode |-> p.dataMode, hopDecisionTarget |-> p.hopDecisionTarget,
                 origSender |-> p.origSender, msgId |-> p.msgId, hopCount |-> p.hopCount,
                 dataLen |-> p.dataLen, dataToSend |-> p.sensorDataReceived,
                 tracking |-> p.tracking, txTimestampUs |-> p.txTimestampUs],
                p.txTimestampUs)

InitCodec == InitNode(FALSE, TRUE)

\* a sender encodes a frame and a receiver parses it
EncodeDecode ==
  /\ \E h \in CodecHeaders, synced \in BOOLEAN, nb \in CodecNeighbourLists, d \in CodecData :
       LET bytes == TxBufferBytes(h, synced, nb, d, NodeNow)
       IN codec' = [input |-> [h |-> h, timeSynced |-> synced, nb |-> nb, d |-> d],
                    bytes |-> bytes,
                    parsed |-> ParseRxBuffer(bytes)]
  /\ UNCHANGED <<nodeVars, nbrVars, forwardQueue, ownVars, cycleVars, pdrVars, txBuffer,
                 loopVars, obsVars, resumed, pdrUpdates, route, queueLog, rxWindow, latency, net>>

NextCodec == EncodeDecode

SpecCodec == InitCodec /\ [][NextCodec]_vars

(***************************************************************************)
(* The gateway's PDR accounting on its own                                 *)
(***************************************************************************)
\* the sequence numbers (low byte of the message id) the origin's frames carry
PdrSeqNums == {7, 8}

InitPdr == InitNode(TRUE, TRUE)

\* the gateway branch of the data section: a data frame of origin orig arrives
GatewaySink(orig, seqNum) ==
  /\ isReference
  /\ pdrUpdates < MaxPdrUpdates
  /\ orig # myInfo.id
  /\ LET r == updatePdrStats(pdrStats, pdrNodeCount, orig, MessageIdOf(orig, seqNum))
     IN /\ pdrStats' = r.pdrStats
        /\ pdrNodeCount' = r.pdrNodeCount
  /\ pdrUpdates' = pdrUpdates + 1
  /\ UNCHANGED <<nodeVars, nbrVars, forwardQueue, ownVars, cycleVars, txBuffer,
                 loopVars, obsVars, resumed, codec, route, queueLog, rxWindow, latency, net>>

NextPdr == \E seqNum \in PdrSeqNums : GatewaySink(PEER_ID, seqNum)

SpecPdr == InitPdr /\ [][NextPdr]_vars

(***************************************************************************)
(* The gateway among nodes that send it data, with commands and the button *)
(***************************************************************************)
\* frames of the peer (hop 1, slot 2, listing the gateway): a beacon, its own
\* message, a forwarded message of the far node, a frame carrying a message
\* that names the gateway as origin, and its own message received too weak
GatewayFrames ==
  LET h == Hdr(PEER_ID, 2, 0, 1, 2, STRATUM_DIRECT)
      nb == <<Adv(GATEWAY_ID, 0, 0)>>
  IN {Heard(h, nb, NoData, StrongRssi),
      Heard(h, nb, Data(DATA_MODE_OWN, GATEWAY_ID, PEER_ID, 7, 1, <<PEER_ID, 0, 0>>),
            StrongRssi),
      Heard(h, nb, Data(DATA_MODE_FORWARD, GATEWAY_ID, FAR_ID, 9, 2, <<FAR_ID, PEER_ID, 0>>),
            StrongRssi),
      Heard(h, nb, Data(DATA_MODE_FORWARD, GATEWAY_ID, GATEWAY_ID, 1, 2,
                        <<GATEWAY_ID, PEER_ID, 0>>), StrongRssi),
      Heard(h, nb, Data(DATA_MODE_OWN, GATEWAY_ID, PEER_ID, 8, 1, <<PEER_ID, 0, 0>>),
            WeakRssi)}

\* no origin has had MaxSinkFrames frames accounted for yet
SinkOpen == \A i \in PdrIndex : pdrStats[i].receivedCount < MaxSinkFrames

InitGateway == InitNode(TRUE, TRUE)

NextGateway ==
  \/ \E cmd \in SerialCommands : LoopTop(cmd)
  \/ Processing
  \/ \E f \in GatewayFrames : SinkOpen /\ RxFrame(f, MaxRxPerPhase)
  \/ RxPhaseEnd
  \/ Transmit
  \/ \E txSuccess \in BOOLEAN : SendDone(txSuccess)
  \/ ButtonISR
  \/ UdpStop
  \/ UdpStart

SpecGateway == InitGateway /\ [][NextGateway]_vars

(***************************************************************************)
(* The forward path: a leaf's message carried to the gateway by two relays *)
(***************************************************************************)
\* the ids (DEVICE_ID of each build) of the leaf and of the relays in
\* forwarding order, hops 3, 2 and 1 from the gateway
PathIds == <<5, 4, 2>>

PathLen == Len(PathIds)

\* the node a frame sent by PathIds[k] is addressed to
PathTarget(k) == IF k < PathLen THEN PathIds[k + 1] ELSE GATEWAY_ID

\* the header of PathIds[k]: slot equal to the id, hop PathLen + 1 - k
PathHdr(k, cycle) ==
  Hdr(PathIds[k], PathIds[k], 0, PathLen + 1 - k, cycle,
      IF k = PathLen THEN STRATUM_DIRECT ELSE STRATUM_INDIRECT)

\* PathIds[k] advertises the node it forwards to
PathAdv(k) == <<Adv(PathTarget(k), PathTarget(k), PathLen - k)>>

\* payloads snprintf can leave in sensorDataToSend: "T25H80", "T25H99", "T5H9"
PathPayloads == {<<84, 50, 53, 72, 56, 48>>, SensorReading, <<84, 53, 72, 57>>}

\* messageIdCounter values of the leaf
PathSeqNums == {1, 7, 255}

\* TDMA cycles the leaf sends in
PathCycles == {0, 4}

InitPath == InitNode(TRUE, TRUE)

\* the leaf's transmitUnifiedPacket sends its pending payload as an Own frame
PathOriginate(payload, seq, cycle, synced) ==
  /\ route.stage = "idle"
  /\ LET d == ownData(PathTarget(1), PathIds[1], MessageIdOf(PathIds[1], seq), payload,
                      PathIds[1])
     IN route' = [stage |-> "air", sent |-> 1,
                  input |-> [payload |-> payload, seq |-> seq],
                  bytes |-> TxBufferBytes(PathHdr(1, cycle), synced, PathAdv(1), d, SenderNow)]
  /\ UNCHANGED <<nodeVars, nbrVars, forwardQueue, ownVars, cycleVars, pdrVars, txBuffer,
                 loopVars, obsVars, resumed, codec, pdrUpdates, queueLog, rxWindow, latency, net>>

\* the next relay parses the frame, enqueues it (relay branch of processRxPacket)
\* and sends the dequeued message as a Forward frame in its TX phase
PathRelay(cycle, synced) ==
  /\ route.stage = "air"
  /\ route.sent < PathLen
  /\ LET k == route.sent + 1
         p == ParseRxBuffer(route.bytes)
         q == relayDataFrame(EmptyForwardQueue, p, PathIds[k])
         d == forwardData(dequeueForwardMsg(q), PathTarget(k))
     IN /\ p.dataMode \in {DATA_MODE_OWN, DATA_MODE_FORWARD}
        /\ q.count > 0
        /\ route' = [route EXCEPT !.sent = k,
                                  !.bytes = TxBufferBytes(PathHdr(k, cycle), synced,
                                                          PathAdv(k), d, NodeNow)]
  /\ UNCHANGED <<nodeVars, nbrVars, forwardQueue, ownVars, cycleVars, pdrVars, txBuffer,
                 loopVars, obsVars, resumed, codec, pdrUpdates, queueLog, rxWindow, latency, net>>

\* the gateway parses the frame of the last relay (gateway branch) and accounts
\* for it in its PDR table
PathDeliver ==
  /\ route.stage = "air"
  /\ route.sent = PathLen
  /\ LET p == ParseRxBuffer(route.bytes)
         r == updatePdrStats(pdrStats, pdrNodeCount, p.origSender, p.msgId)
     IN /\ p.dataMode \in {DATA_MODE_OWN, DATA_MODE_FORWARD}
        /\ p.origSender # myInfo.id
        /\ route' = [stage |-> "delivered", sent |-> route.sent, input |-> route.input,
                     received |-> p]
        /\ pdrStats' = r.pdrStats
        /\ pdrNodeCount' = r.pdrNodeCount
  /\ UNCHANGED <<nodeVars, nbrVars, forwardQueue, ownVars, cycleVars, txBuffer,
                 loopVars, obsVars, resumed, codec, pdrUpdates, queueLog, rxWindow, latency, net>>

NextPath ==
  \/ \E payload \in PathPayloads, seq \in PathSeqNums, cycle \in PathCycles, synced \in BOOLEAN :
       PathOriginate(payload, seq, cycle, synced)
  \/ \E cycle \in PathCycles, synced \in BOOLEAN : PathRelay(cycle, synced)
  \/ PathDeliver

SpecPath == InitPath /\ [][NextPath]_vars

(***************************************************************************)
(* The link to one neighbour: the peer advertises its table to the node    *)
(***************************************************************************)
\* the list the peer advertises: n entries with the node at position k
\* (k = 0: the node is not in the list)
LinkAdvList(n, k) ==
  [i \in 1..n |-> IF i = k THEN Adv(DEVICE_ID, SLOT_DEVICE, 3) ELSE Adv(10 + i, 3 + i, 2)]

\* lists of 1, 4, 5 and 6 neighbours (neighborsToSend of the peer)
LinkAdvLists ==
  {LinkAdvList(n, k) : n \in {1, 4, 5, MAX_NEIGHBOURS_IN_PACKET}, k \in 0..MAX_NEIGHBOURS_IN_PACKET}

\* what the peer sends with the list: nothing, its own message, or a message
\* of the node that it forwards to the gateway
LinkData ==
  {NoData,
   Data(DATA_MODE_OWN, GATEWAY_ID, PEER_ID, 7, 1, <<PEER_ID, 0, 0>>),
   Data(DATA_MODE_FORWARD, GATEWAY_ID, DEVICE_ID, 1, 2, <<DEVICE_ID, PEER_ID, 0>>)}

\* the frames of the peer (hop 1 or 2, slot 2) as the radio delivers them;
\* listed records whether the list the peer advertised holds the node
LinkFrames ==
  {[p |-> ParseRxBuffer(TxBufferBytes(Hdr(PEER_ID, 2, 0, hop, 2, STRATUM_INDIRECT), TRUE,
                                      nb, d, SenderNow)),
    rssi |-> StrongRssi, snr |-> 5,
    listed |-> \E i \in 1..Len(nb) : nb[i].id = DEVICE_ID] :
     nb \in LinkAdvLists, d \in LinkData, hop \in {1, 2}}

InitLink == InitNode(FALSE, TRUE)

NextLink ==
  \/ LoopTop("NONE")
  \/ Processing
  \/ \E f \in LinkFrames : RxFrame(f, MaxRxPerPhase)
  \/ RxPhaseEnd
  \/ Transmit
  \/ \E txSuccess \in BOOLEAN : SendDone(txSuccess)

SpecLink == InitLink /\ [][NextLink]_vars

(***************************************************************************)
(* The RSSI floor: the same frames received above and below the threshold  *)
(***************************************************************************)
\* beacons of the gateway and forwarded messages of the far node that the peer
\* addresses to the node, each received with a strong and with a weak signal
FloorFrames ==
  {Heard(Hdr(GATEWAY_ID, 0, 1, 0, c, STRATUM_GATEWAY), <<Adv(DEVICE_ID, SLOT_DEVICE, 1)>>,
         NoData, rssi) : c \in {0}, rssi \in {StrongRssi, WeakRssi}}
  \cup
  {Heard(Hdr(PEER_ID, 2, 0, 1, 1, STRATUM_DIRECT), <<Adv(DEVICE_ID, SLOT_DEVICE, 2)>>,
         Data(DATA_MODE_FORWARD, DEVICE_ID, FAR_ID, seq, 2, <<FAR_ID, PEER_ID, 0>>),
         rssi) : seq \in {9}, rssi \in {StrongRssi, WeakRssi}}

\* room left in the receiver: the PDR counts and the forward queue are below
\* their bounds
FloorOpen == SinkOpen /\ forwardQueue.count < MaxFloorQueued

InitFloor == \E ref \in BOOLEAN : InitNode(ref, TRUE)

NextFloor ==
  \/ LoopTop("NONE")
  \/ Processing
  \/ \E f \in FloorFrames : FloorOpen /\ RxFrame(f, MaxRxPerPhase)
  \/ RxPhaseEnd
  \/ Transmit
  \/ \E txSuccess \in BOOLEAN : SendDone(txSuccess)

SpecFloor == InitFloor /\ [][NextFloor]_vars

(***************************************************************************)
(* The neighbour table filling up: more senders in range than table slots  *)
(***************************************************************************)
\* frames the radio delivers within one RX phase in the table specification
MaxTableRx == MAX_NEIGHBOURS + 1

\* the senders in range: one more than the table holds, sender k owns slot k
TableSenders == (DEVICE_ID + 1)..(DEVICE_ID + MaxTableRx)

\* senders whose frames may arrive below the RSSI threshold
FadingSenders == {DEVICE_ID + 1, DEVICE_ID + 2}

\* every sender's beacon (hop unknown, stratum Local, listing nobody)
TableFrames ==
  {Heard(Hdr(k, k, 0, HOP_UNKNOWN, 0, STRATUM_LOCAL), << >>, NoData, rssi) :
     k \in TableSenders, rssi \in {StrongRssi, WeakRssi}}

InitTable == InitNode(FALSE, TRUE)

\* a cycle is silent, or every sender transmits once in the order of the slots
\* (all slots lie after the node's own, in RX phase 2)
NextTable ==
  \/ LoopTop("NONE")
  \/ Processing
  \/ \E f \in TableFrames :
       /\ pc = "rx2"
       /\ f.p.senderSlot = DEVICE_ID + 1 + rxInPhase
       /\ f.rssi = WeakRssi => f.p.senderId \in FadingSenders
       /\ RxFrame(f, MaxTableRx)
  \/ rxInPhase \in {0, MaxTableRx} /\ RxPhaseEnd
  \/ Transmit
  \/ \E txSuccess \in BOOLEAN : SendDone(txSuccess)

SpecTable == InitTable /\ [][NextTable]_vars

(***************************************************************************)
(* The relay sink: data frames addressed to the node and to another relay  *)
(***************************************************************************)
\* data frames of the peer (hop 1, stratum Local, listing the node): messages
\* of the far node that have made two hops, addressed to the node and to the
\* gateway, and one that has made three hops, addressed to the node
SinkFrames ==
  LET h == Hdr(PEER_ID, 2, 0, 1, 1, STRATUM_LOCAL)
      nb == <<Adv(DEVICE_ID, SLOT_DEVICE, 2)>>
  IN {Heard(h, nb, Data(DATA_MODE_FORWARD, target, FAR_ID, 9, 2, <<FAR_ID, PEER_ID, 0>>),
            StrongRssi) : target \in {DEVICE_ID, GATEWAY_ID}}
     \cup
     {Heard(h, nb, Data(DATA_MODE_FORWARD, DEVICE_ID, FAR_ID, 9, 3,
                        <<FAR_ID, FAR_ID + 1, PEER_ID>>), StrongRssi)}

\* fewer than MaxRelayed messages have been put in the forward queue so far
RelayOpen == forwardQueue.head < MaxRelayed

InitSink == InitNode(FALSE, TRUE)

NextSink ==
  \/ LoopTop("NONE")
  \/ Processing
  \/ \E f \in SinkFrames : RelayOpen /\ RxFrame(f, MaxRxPerPhase)
  \/ RxPhaseEnd
  \/ Transmit
  \/ \E txSuccess \in BOOLEAN : SendDone(txSuccess)

SpecSink == InitSink /\ [][NextSink]_vars

(***************************************************************************)
(* The forward queue on its own: calls of enqueueForward and dequeueForward *)
(***************************************************************************)
\* two messages of the far node
QueueMessages ==
  {[ZeroForwardMessage EXCEPT !.originalSender = FAR_ID,
                              !.messageId = MessageIdOf(FAR_ID, seq),
                              !.hopCount = 1] : seq \in {7, 8}}

InitQueue == InitNode(FALSE, TRUE)

\* enqueueForward(&msg): the log takes the message when the call returns true
EnqueueCall(msg) ==
  /\ queueLog.calls < MaxEnqueueCalls
  /\ forwardQueue' = enqueueForward(forwardQueue, msg)
  /\ LET ok == ~(forwardQueue.count >= FORWARD_QUEUE_SIZE)
     IN queueLog' = [queueLog EXCEPT !.calls = @ + 1,
                                     !.accepted = IF ok THEN Append(@, msg) ELSE @,
                                     !.ok = ok]
  /\ UNCHANGED <<nodeVars, nbrVars, ownVars, cycleVars, pdrVars, txBuffer, loopVars,
                 obsVars, resumed, codec, pdrUpdates, route, rxWindow, latency, net>>

\* dequeueForward(&msg): the log takes the message copied out when the call
\* returns true
DequeueCall ==
  /\ forwardQueue' = dequeueForward(forwardQueue)
  /\ LET ok == ~(forwardQueue.count = 0)
     IN queueLog' = [queueLog EXCEPT !.returned = IF ok
                                                   THEN Append(@, dequeueForwardMsg(forwardQueue))
                                                   ELSE @,
                                     !.ok = ok]
  /\ UNCHANGED <<nodeVars, nbrVars, ownVars, cycleVars, pdrVars, txBuffer, loopVars,
                 obsVars, resumed, codec, pdrUpdates, route, rxWindow, latency, net>>

NextQueue ==
  \/ \E msg \in QueueMessages : EnqueueCall(msg)
  \/ DequeueCall

SpecQueue == InitQueue /\ [][NextQueue]_vars

(***************************************************************************)
(* Cycle validation: an upstream neighbour advertising cycle values        *)
(***************************************************************************)
\* beacons of the peer (hop 1, stratum Local, listing nobody) in cycles 2..5
CycleFrames ==
  {Heard(Hdr(PEER_ID, 2, 0, 1, c, STRATUM_LOCAL), << >>, NoData, StrongRssi) : c \in 2..5}

InitCycle == InitNode(FALSE, TRUE)

NextCycle ==
  \/ \E cmd \in SerialCommands : LoopTop(cmd)
  \/ Processing
  \/ \E f \in CycleFrames : RxFrame(f, MaxRxPerPhase)
  \/ RxPhaseEnd
  \/ Transmit
  \/ \E txSuccess \in BOOLEAN : SendDone(txSuccess)

SpecCycle == InitCycle /\ [][NextCycle]_vars

(***************************************************************************)
(* The RX windows of loop() on their own: the remaining time of the phase  *)
(***************************************************************************)
\* the % of C on int: the remainder has the sign of the dividend
CRem(x, y) == IF x >= 0 THEN x % y ELSE -((-x) % y)

\* modulo() with the plain % of C
moduloTruncating(x, y) == CRem(x, y)

\* inline int modulo(int x, int y)
modulo(x, y) == IF x < 0 THEN CRem(x + 1, y) + y - 1 ELSE CRem(x, y)

\* inline uint32_t calcTimeoutMs(int32_t remaining_us)
calcTimeoutMs(remaining_us) ==
  IF remaining_us <= 0 THEN 0
  ELSE LET capped_us == IF remaining_us > Tslot_us THEN Tslot_us ELSE remaining_us
           timeout_ms == (capped_us + 500) \div 1000
       IN IF timeout_ms > 0 THEN timeout_ms ELSE 1

\* micros() - rxPhaseStart when responder() returns without a frame
ElapsedTimes == {Tslot_us \div 2, 3 * Tslot_us, Nslot * Tslot_us}

\* RX PHASE 1 / RX PHASE 2 begins for a node that owns slot mySlot
RxWindowOpen(phase, mySlot) ==
  /\ rxWindow.phase \in {"none", "closed"}
  /\ LET d == IF phase = "before" THEN mySlot * Tslot_us
              ELSE (Nslot - mySlot - 1) * Tslot_us
     IN rxWindow' = [phase |-> phase, mySlot |-> mySlot, duration |-> d, remaining |-> d,
                     last |-> "open", senderSlot |-> 255, elapsed |-> 0]
  /\ UNCHANGED <<nodeVars, nbrVars, forwardQueue, ownVars, cycleVars, pdrVars, txBuffer,
                 loopVars, obsVars, resumed, codec, pdrUpdates, route, queueLog, latency, net>>

\* one pass of the while loop: responder() returns out after elapsed microseconds
RxWindowPass(out, elapsed) ==
  /\ rxWindow.phase \in {"before", "after"}
  /\ rxWindow.remaining > 0
  /\ calcTimeoutMs(rxWindow.remaining) # 0
  /\ LET my == rxWindow.mySlot
         r == IF timingAdjusted(out)
              THEN IF rxWindow.phase = "before"
                   THEN IF my > out.senderSlot
                        THEN modulo(my - out.senderSlot - 1, Nslot) * Tslot_us + slotOffset_us
                        ELSE modulo(my - out.senderSlot - 1, Nslot) * Tslot_us + slotOffset_us
                             + Tprocessing_us
                   ELSE (Nslot - out.senderSlot - 1) * Tslot_us + slotOffset_us
              ELSE rxWindow.duration - elapsed
     IN rxWindow' = [rxWindow EXCEPT !.remaining = r,
                                     !.last = IF timingAdjusted(out) THEN "frame" ELSE "timeout",
                                     !.senderSlot = out.senderSlot,
                                     !.elapsed = elapsed]
  /\ UNCHANGED <<nodeVars, nbrVars, forwardQueue, ownVars, cycleVars, pdrVars, txBuffer,
                 loopVars, obsVars, resumed, codec, pdrUpdates, route, queueLog, latency, net>>

\* the while loop ends
RxWindowClose ==
  /\ rxWindow.phase \in {"before", "after"}
  /\ ~(rxWindow.remaining > 0 /\ calcTimeoutMs(rxWindow.remaining) # 0)
  /\ rxWindow' = [rxWindow EXCEPT !.phase = "closed"]
  /\ UNCHANGED <<nodeVars, nbrVars, forwardQueue, ownVars, cycleVars, pdrVars, txBuffer,
                 loopVars, obsVars, resumed, codec, pdrUpdates, route, queueLog, latency, net>>

InitTiming == InitNode(FALSE, TRUE)

NextTiming ==
  \/ \E phase \in {"before", "after"}, mySlot \in 0..(Nslot - 1) : RxWindowOpen(phase, mySlot)
  \/ \E s \in 0..(Nslot - 1), elapsed \in ElapsedTimes :
       RxWindowPass(responderOutput(s), elapsed)
  \/ \E elapsed \in ElapsedTimes : RxWindowPass(NoRxOutput, elapsed)
  \/ RxWindowClose

SpecTiming == InitTiming /\ [][NextTiming]_vars

(***************************************************************************)
(* The gateway's latency sampling on its own.  An int64_t count of         *)
(* microseconds is kept as seconds and microseconds, [s, us], 0 <= us < 10^6 *)
(***************************************************************************)
\* a - b on int64_t microsecond counts
TimeDiff(a, b) ==
  IF a.us - b.us < 0 THEN [s |-> a.s - b.s - 1, us |-> a.us - b.us + 1000000]
  ELSE [s |-> a.s - b.s, us |-> a.us - b.us]

\* x > 0 on an int64_t microsecond count
TimePositive(x) == x.s > 0 \/ (x.s = 0 /\ x.us > 0)

\* the latency calculation of the gateway branch: the statistics afterwards
latencySample(lat, synced, msgId, txTimestampUs, currentTime) ==
  LET timeDiff == TimeDiff(currentTime, txTimestampUs)
  IN IF /\ synced
        /\ TimePositive(txTimestampUs)
        /\ TimePositive(timeDiff)
        /\ timeDiff.s < 3600
     THEN [totalLatencyCalculations |-> lat.totalLatencyCalculations + 1,
           latencyRecordIndex |-> (lat.latencyRecordIndex + 1) % LATENCY_CACHE_SIZE,
           latencyRecordCount |-> IF lat.latencyRecordCount < LATENCY_CACHE_SIZE
                                  THEN lat.latencyRecordCount + 1
                                  ELSE lat.latencyRecordCount,
           latencyRecords |-> [lat.latencyRecords EXCEPT ![lat.latencyRecordIndex] =
                                 [messageId |-> msgId, latencyUs |-> timeDiff]]]
     ELSE lat

\* getCurrentTimeUs() at the gateway when the frame is handled
GatewayNow == [s |-> 4000, us |-> 0]

\* embedded origin timestamps: none, half a second old, one microsecond less
\* than an hour old, exactly an hour old, older, the present, and the future
TxTimestamps ==
  {[s |-> 0, us |-> 0], [s |-> 3999, us |-> 500000], [s |-> 400, us |-> 1],
   [s |-> 400, us |-> 0], [s |-> 399, us |-> 999999], GatewayNow, [s |-> 4000, us |-> 1]}

\* the gateway branch of the data section for a frame of the peer that carries
\* the origin timestamp ts: the PDR update, then the latency calculation
LatencySink(seqNum, ts) ==
  /\ isReference
  /\ pdrUpdates < MaxLatencyFrames
  /\ LET r == updatePdrStats(pdrStats, pdrNodeCount, PEER_ID, MessageIdOf(PEER_ID, seqNum))
     IN /\ pdrStats' = r.pdrStats
        /\ pdrNodeCount' = r.pdrNodeCount
  /\ latency' = latencySample(latency, timeSynced, MessageIdOf(PEER_ID, seqNum), ts, GatewayNow)
  /\ pdrUpdates' = pdrUpdates + 1
  /\ UNCHANGED <<nodeVars, nbrVars, forwardQueue, ownVars, cycleVars, txBuffer,
                 loopVars, obsVars, resumed, codec, route, queueLog, rxWindow, net>>

InitLatency == \E synced \in BOOLEAN : InitNode(TRUE, synced)

NextLatency == \E seqNum \in PdrSeqNums, ts \in TxTimestamps : LatencySink(seqNum, ts)

SpecLatency == InitLatency /\ [][NextLatency]_vars

(***************************************************************************)
(* The sync tree of a network: the gateway, the peer in its range, and the *)
(* node, which hears the peer only.  Each node runs the sync logic on the  *)
(* frames it accepts and the stratum timeout check once per cycle.         *)
(***************************************************************************)
\* the peer accepts a frame of the gateway
NetGatewayFrame ==
  /\ net.gatewayInRange
  /\ net' = [net EXCEPT !.mi[PEER_ID] =
               hierarchicalSync(@, [senderId |-> GATEWAY_ID, senderStratum |-> STRATUM_GATEWAY])]
  /\ UNCHANGED <<nodeVars, nbrVars, forwardQueue, ownVars, cycleVars, pdrVars, txBuffer,
                 loopVars, obsVars, resumed, codec, pdrUpdates, route, queueLog, rxWindow,
                 latency>>

\* rx accepts the frame tx sends in its slot: the header carries tx's stratum
NetPeerFrame(rx, tx) ==
  /\ rx # tx
  /\ net' = [net EXCEPT !.mi[rx] =
               hierarchicalSync(@, [senderId |-> tx,
                                    senderStratum |-> net.mi[tx].syncStratum])]
  /\ UNCHANGED <<nodeVars, nbrVars, forwardQueue, ownVars, cycleVars, pdrVars, txBuffer,
                 loopVars, obsVars, resumed, codec, pdrUpdates, route, queueLog, rxWindow,
                 latency>>

\* a cycle of node n ends: syncedCycle advances and the stratum timeout check runs
NetCycle(n) ==
  /\ LET advanced == [net.mi[n] EXCEPT !.syncedCycle = (@ + 1) % AUTO_SEND_INTERVAL_CYCLES]
         r == stratumTimeout(advanced, net.last[n])
     IN net' = [net EXCEPT !.mi[n] = r.mi, !.last[n] = r.last]
  /\ UNCHANGED <<nodeVars, nbrVars, forwardQueue, ownVars, cycleVars, pdrVars, txBuffer,
                 loopVars, obsVars, resumed, codec, pdrUpdates, route, queueLog, rxWindow,
                 latency>>

\* from here on no node receives a frame of the gateway
NetGatewayLost ==
  /\ net.gatewayInRange
  /\ net' = [net EXCEPT !.gatewayInRange = FALSE]
  /\ UNCHANGED <<nodeVars, nbrVars, forwardQueue, ownVars, cycleVars, pdrVars, txBuffer,
                 loopVars, obsVars, resumed, codec, pdrUpdates, route, queueLog, rxWindow,
                 latency>>

InitNet == InitNode(FALSE, TRUE)

NextNet ==
  \/ NetGatewayFrame
  \/ \E rx \in NetNodes, tx \in NetNodes : NetPeerFrame(rx, tx)
  \/ \E n \in NetNodes : NetCycle(n)
  \/ NetGatewayLost

\* every node's loop keeps running, and the frames the nodes send each other
\* keep arriving
SpecNet ==
  /\ InitNet
  /\ [][NextNet]_vars
  /\ \A n \in NetNodes : WF_vars(NetCycle(n))
  /\ \A rx \in NetNodes, tx \in NetNodes : WF_vars(NetPeerFrame(rx, tx))

(***************************************************************************)
(* The node below two upstream neighbours: in every cycle it accepts, after *)
(* its own slot, the frame of each of them, and both advertise the         *)
(* network's current cycle value, which advances by 1 mod                  *)
(* AUTO_SEND_INTERVAL_CYCLES from one cycle to the next                    *)
(***************************************************************************)
\* the upstream neighbours (hop 1), heard in the order of their slots
UpstreamSenders == {PEER_ID, DEVICE_ID + 1}

\* their frames: header only, either signal strength above the floor
UpstreamFrames ==
  {Heard(Hdr(id, id, 0, 1, c, STRATUM_LOCAL), << >>, NoData, rssi) :
     id \in UpstreamSenders, c \in 0..(AUTO_SEND_INTERVAL_CYCLES - 1),
     rssi \in {StrongRssi, StrongRssi + 1}}

\* the cycle value the upstream frames of this RX phase carry: one more than
\* the value of the cycle before, which the node took over into syncedCycle
UpstreamCycle ==
  IF rxInPhase = 0 THEN (myInfo.syncedCycle + 1) % AUTO_SEND_INTERVAL_CYCLES
  ELSE myInfo.syncedCycle

InitUpstream == InitNode(FALSE, TRUE)

NextUpstream ==
  \/ LoopTop("NONE")
  \/ Processing
  \/ \E f \in UpstreamFrames :
       /\ pc = "rx2"
       /\ f.p.senderId = (IF rxInPhase = 0 THEN PEER_ID ELSE DEVICE_ID + 1)
       /\ f.p.senderCycle = UpstreamCycle
       /\ RxFrame(f, Cardinality(UpstreamSenders))
  \/ (pc = "rx2" => rxInPhase = Cardinality(UpstreamSenders)) /\ RxPhaseEnd
  \/ Transmit
  \/ SendDone(TRUE)

\* the loop keeps running and the frames keep arriving
SpecUpstream == InitUpstream /\ [][NextUpstream]_vars /\ WF_vars(NextUpstream)

(***************************************************************************)
(* The node among seven neighbours, one in each other slot of the frame:   *)
(* in every cycle it accepts the frame of each of them, and each of them   *)
(* lists the node.  Six are at hop 1, the last one is at hop 3.             *)
(***************************************************************************)
\* the neighbour in the last slot, at the highest hop distance
CrowdFarNeighbour == DEVICE_ID + Nslot - 1

\* the neighbours' frames: sender DEVICE_ID + k has slot 0 for k = 1 and slot
\* k for k = 2..7; header and neighbour section only; the far neighbour is
\* heard at either of two signal strengths above the floor
CrowdFrames ==
  {f \in {Heard(Hdr(DEVICE_ID + k, IF k = 1 THEN 0 ELSE k, 0,
                    IF DEVICE_ID + k = CrowdFarNeighbour THEN 3 ELSE 1, c, STRATUM_LOCAL),
                <<Adv(DEVICE_ID, SLOT_DEVICE, 2)>>, NoData, rssi) :
            k \in 1..(Nslot - 1), c \in 0..(AUTO_SEND_INTERVAL_CYCLES - 1),
            rssi \in {StrongRssi, StrongRssi + 1}} :
     f.rssi = StrongRssi \/ f.p.senderId = CrowdFarNeighbour}

\* the cycle value the frames of this cycle carry: it advances with the frame
\* of slot 0, whose value the node takes over into syncedCycle
CrowdCycle ==
  IF pc = "rx1" THEN (myInfo.syncedCycle + 1) % AUTO_SEND_INTERVAL_CYCLES
  ELSE myInfo.syncedCycle

\* the steps of a cycle other than the processing phase
CrowdRadio ==
  \/ LoopTop("NONE")
  \/ \E f \in CrowdFrames :
       /\ f.p.senderSlot = (IF pc = "rx1" THEN 0 ELSE 2 + rxInPhase)
       /\ f.p.senderCycle = CrowdCycle
       /\ RxFrame(f, IF pc = "rx1" THEN 1 ELSE Nslot - 2)
  \/ rxInPhase = (IF pc = "rx1" THEN 1 ELSE Nslot - 2) /\ RxPhaseEnd
  \/ Transmit
  \/ SendDone(TRUE)

NextCrowd == Processing \/ CrowdRadio

\* the loop keeps running (the processing phase always ends) and the frames
\* keep arriving
SpecCrowd ==
  /\ InitUpstream
  /\ [][NextCrowd]_vars
  /\ WF_vars(CrowdRadio)
  /\ []<>(pc # "processing")

(***************************************************************************)
(* The gateway on a lossless channel.  The leaf (hop 2) sends its messages *)
(* to the relay (hop 1), which forwards each of them to the gateway in the *)
(* next cycle; the gateway receives the frames of both nodes, none is lost. *)
(***************************************************************************)
\* the gateway's PDR entry of the leaf (the cleared entry before the first frame)
LeafEntry ==
  IF \E i \in PdrIndex : i < pdrNodeCount /\ pdrStats[i].nodeId = FAR_ID
  THEN pdrStats[CHOOSE i \in PdrIndex : i < pdrNodeCount /\ pdrStats[i].nodeId = FAR_ID]
  ELSE ZeroPdrNodeStats

\* the sequence number of the leaf's message the gateway accounted last
\* (0: none yet)
LeafLastSeq == LeafEntry.lastSeqReceived

\* the relay's frame of this cycle (slot 2): it forwards, once, the message the
\* leaf sent it in the cycle before; the forward is due while the gateway has
\* accounted the leaf's frame of that message only (an odd number of frames)
RelayForwardFrame ==
  Heard(Hdr(PEER_ID, 2, 0, 1, 2, STRATUM_DIRECT), <<Adv(GATEWAY_ID, 0, 0)>>,
        IF LeafEntry.receivedCount % 2 = 0 THEN NoData
        ELSE Data(DATA_MODE_FORWARD, GATEWAY_ID, FAR_ID, LeafLastSeq, 2, <<FAR_ID, PEER_ID, 0>>),
        StrongRssi)

\* the leaf's frame of this cycle (slot 7): its next message, addressed to the
\* relay, as long as it has one
LeafOwnFrame ==
  Heard(Hdr(FAR_ID, Nslot - 1, 0, 2, 2, STRATUM_INDIRECT), <<Adv(PEER_ID, 2, 1)>>,
        IF LeafLastSeq >= MaxLeafMessages THEN NoData
        ELSE Data(DATA_MODE_OWN, PEER_ID, FAR_ID, LeafLastSeq + 1, 1, <<FAR_ID, 0, 0>>),
        StrongRssi)

NextLossless ==
  \/ LoopTop("NONE")
  \/ Processing
  \/ pc = "rx2" /\ RxFrame(IF rxInPhase = 0 THEN RelayForwardFrame ELSE LeafOwnFrame, 2)
  \/ (pc = "rx2" => rxInPhase = 2) /\ RxPhaseEnd
  \/ Transmit
  \/ SendDone(TRUE)

SpecLossless == InitGateway /\ [][NextLossless]_vars

(***************************************************************************)
(* Properties                                                              *)
(***************************************************************************)
\* the entries of the forward queue that are waiting, oldest first
QueuedMessages ==
  [j \in 1..forwardQueue.count |->
     forwardQueue.slots[(forwardQueue.tail + j - 1) % FORWARD_QUEUE_SIZE]]

\* the frame in txBuffer as a receiver parses it
SentFrame == ParseRxBuffer(txBuffer)

\* the node's hop distance is known (neither the gateway's 0 nor 0x7F)
HopKnown == myInfo.hoppingDistance # 0 /\ myInfo.hoppingDistance # HOP_UNKNOWN

\* C1: the forward queue never holds more than FORWARD_QUEUE_SIZE (8) entries
\* and at most one entry is dequeued in a TDMA cycle.
C1_QueueBounded ==
  /\ forwardQueue.count <= FORWARD_QUEUE_SIZE
  /\ dequeuesThisCycle <= 1

\* C1 witness: the queue is full in a cycle that has dequeued an entry.
C1_QueueFullAfterDequeue ==
  /\ forwardQueue.count = FORWARD_QUEUE_SIZE
  /\ dequeuesThisCycle = 1
  /\ pc = "rx2"

\* C2: hop is 0 exactly on the gateway; on any other node hop is 0x7F or some
\* neighbour in the table has hop + 1 equal to it with RSSI at or above the floor.
C2_HopSupported ==
  /\ (myInfo.hoppingDistance = 0) <=> isReference
  /\ ~isReference =>
       \/ myInfo.hoppingDistance = HOP_UNKNOWN
       \/ \E i \in NbrIndex : /\ neighbours[i].id # 0
                              /\ neighbours[i].hoppingDistance + 1 = myInfo.hoppingDistance
                              /\ neighbours[i].rssi >= RSSI_THRESHOLD_DBM

C4_NoLoopQueued ==
  \A j \in 1..forwardQueue.count :
    \A k \in 1..MAX_TRACKING_HOPS :
      k < QueuedMessages[j].hopCount => QueuedMessages[j].tracking[k] # myInfo.id

\* C5: a message is minted only in the cycle (id - 1) mod M and at least M
\* cycles after the previous one.
C5_OriginationOncePerWindow ==
  lastOrigin.minted =>
    /\ lastOrigin.cycle = myTurnCycle(myInfo.id)
    /\ lastOrigin.gap >= AUTO_SEND_INTERVAL_CYCLES

\* C6: for every origin the gateway tracks, received <= expected, the ratio
\* received / expected lies in [0, 1], and gaps = expected - received.
C6_PdrCountersConsistent ==
  \A i \in PdrIndex :
    (i < pdrNodeCount /\ pdrStats[i].initialized) =>
      /\ pdrStats[i].receivedCount <= pdrStats[i].expectedCount
      /\ pdrStats[i].pdrNum >= 0
      /\ pdrStats[i].pdrNum <= 100 * pdrStats[i].pdrDen
      /\ pdrStats[i].gapCount = pdrStats[i].expectedCount - pdrStats[i].receivedCount

\* C7: right after the processing phase has aged the table, every neighbour left
\* in it has RSSI at or above the floor and an inactivity counter below
\* MAX_INACTIVE_CYCLES.
C7_TableFreshAfterTick ==
  (pc = "rx1" /\ rxInPhase = 0) =>
    \A i \in NbrIndex :
      neighbours[i].id # 0 =>
        /\ neighbours[i].rssi >= RSSI_THRESHOLD_DBM
        /\ neighbours[i].activityCounter < MAX_INACTIVE_CYCLES

\* C7 witness: the tick has just evicted one neighbour and kept another that is
\* one cycle from eviction.
C7_TickEvictedAndKept ==
  /\ pc = "rx1"
  /\ rxInPhase = 0
  /\ \E i \in NbrIndex : neighbours[i] = ZeroNeighbour
  /\ \E i \in NbrIndex : /\ neighbours[i].id # 0
                         /\ neighbours[i].activityCounter = MAX_INACTIVE_CYCLES - 1

\* C8: an encoded frame is 48 bytes, re-encoding its parse gives the same bytes,
\* and the parse recovers every field that was encoded, payload included.
C8_CodecRoundTrip ==
  codec # NoCodec =>
    LET h == codec.input.h
        d == codec.input.d
        p == codec.parsed
    IN /\ DOMAIN codec.bytes = 0..47
       /\ \A i \in DOMAIN codec.bytes : codec.bytes[i] \in 0..255
       /\ ReEncode(p) = codec.bytes
       /\ p.senderId = h.id
       /\ p.senderSlot = h.slotIndex
       /\ p.senderHop = h.hoppingDistance
       /\ p.senderCycle = h.syncedCycle
       /\ p.senderStratum = h.syncStratum
       /\ p.neighbors = codec.input.nb
       /\ p.dataMode = d.dataMode
       /\ p.hopDecisionTarget = d.hopDecisionTarget
       /\ d.dataMode # DATA_MODE_NONE =>
            /\ p.origSender = d.origSender
            /\ p.msgId = d.msgId
            /\ p.hopCount = d.hopCount
            /\ p.dataLen = d.dataLen
            /\ p.tracking = d.tracking
            /\ p.sensorDataReceived = SubSeq(d.dataToSend, 1, d.dataLen)
            /\ p.txTimestampUs = EmbeddedTimestamp(d, codec.input.timeSynced, NodeNow)

\* the steps loop() takes from phase to phase
PhaseSteps ==
  {<<"loop", "processing">>, <<"processing", "rx1">>, <<"rx1", "tx">>,
   <<"tx", "send">>, <<"send", "rx2">>, <<"rx2", "loop">>}

\* C9: a cycle starts only while the scheduler is enabled and runs processing,
\* RX phase 1, TX and RX phase 2 in this order; radio.Send is called exactly once
\* in the TX phase, also when it fails.
C9_PhasesInOrder ==
  [][/\ pc' # pc => <<pc, pc'>> \in PhaseSteps
     /\ (pc = "loop" /\ pc' = "processing") => tdmaEnabled'
     /\ pc' \in {"processing", "rx1", "tx"} => sendsThisCycle' = 0
     /\ pc' \in {"send", "rx2"} => sendsThisCycle' = 1
     /\ (pc = "rx2" /\ pc' = "loop") => sendsThisCycle' = 1]_vars

\* C9 witness: RX phase 2 after a radio.Send that failed, one call made.
C9_FailedSendNotRetried ==
  /\ pc = "rx2"
  /\ sendFailed
  /\ sendsThisCycle = 1

\* what the TX step does for the data mode it must choose, given whether the
\* queue and the pending own message may be used
TxStepChooses(useQueue, useOwn) ==
  LET head == forwardQueue.slots[forwardQueue.tail]
      f == ParseRxBuffer(txBuffer')
  IN /\ useQueue =>
          /\ f.dataMode = DATA_MODE_FORWARD
          /\ f.origSender = head.originalSender
          /\ f.msgId = head.messageId
          /\ f.hopCount = head.hopCount
          /\ f.tracking = head.tracking
          /\ forwardQueue'.count = forwardQueue.count - 1
          /\ hasSensorDataToSend' = hasSensorDataToSend
     /\ (~useQueue /\ useOwn) =>
          /\ f.dataMode = DATA_MODE_OWN
          /\ f.origSender = ownMessageOrigSender
          /\ f.msgId = ownMessageId
          /\ forwardQueue' = forwardQueue
          /\ ~hasSensorDataToSend'
     /\ (~useQueue /\ ~useOwn) =>
          /\ f.dataMode = DATA_MODE_NONE
          /\ forwardQueue' = forwardQueue
          /\ hasSensorDataToSend' = hasSensorDataToSend

\* a pending own message stops being pending only by being sent as Own
PendingUntilSent ==
  (hasSensorDataToSend /\ ~hasSensorDataToSend') =>
    /\ pc = "tx"
    /\ pc' = "send"
    /\ ParseRxBuffer(txBuffer').dataMode = DATA_MODE_OWN
    /\ ParseRxBuffer(txBuffer').msgId = ownMessageId

C11_GatewaySilent ==
  isReference =>
    /\ myInfo.hoppingDistance = 0
    /\ forwardQueue.count = 0
    /\ ~hasSensorDataToSend
    /\ messageIdCounter = 0
    /\ SentFrame.dataMode = DATA_MODE_NONE

\* C11 witness: the gateway is transmitting after it has accounted for data
\* frames of two origins, and the button has been pressed.
C11_GatewaySendsBeaconAfterData ==
  /\ isReference
  /\ pc = "send"
  /\ pdrNodeCount = 2
  /\ buttonPressed
  /\ SentFrame.senderId = GATEWAY_ID

\* this step of loop() mints a message (auto-send or button handler)
MintStep ==
  /\ pc = "loop"
  /\ lastOrigin'.minted
  /\ lastOrigin' # lastOrigin \/ messageIdCounter' # messageIdCounter

\* this step of transmitUnifiedPacket builds an Own frame
OwnFrameStep ==
  /\ pc = "tx"
  /\ pc' = "send"
  /\ ParseRxBuffer(txBuffer').dataMode = DATA_MODE_OWN

\* C12: a non-gateway node mints a message (auto-send or button) and transmits
\* an Own frame only while cycleValidated is true.
C12_OriginationNeedsValidation ==
  [][~isReference =>
       /\ MintStep => cycleValidated'
       /\ OwnFrameStep => cycleValidated]_vars

\* C13: on a non-gateway node every TDMA cycle, also one that follows a cycle
\* without any received frame, decrements a positive syncValidCounter by one,
\* and the decrement that reaches 0 degrades a Direct or Indirect stratum
\* directly to Local and clears syncSource.
C13_CounterDecrementsEachCycle ==
  [][(~isReference /\ pc = "loop" /\ pc' = "processing" /\ myInfo.syncValidCounter > 0) =>
       /\ myInfo'.syncValidCounter = myInfo.syncValidCounter - 1
       /\ (myInfo'.syncValidCounter = 0 /\ myInfo.syncStratum < STRATUM_LOCAL) =>
            /\ myInfo'.syncStratum = STRATUM_LOCAL
            /\ myInfo'.syncSource = 0]_vars

\* C14: the per-cycle recomputation on a non-gateway node leaves hop at the
\* minimum of n.hop + 1 over the neighbours with n.rssi >= RSSI_THRESHOLD_DBM
\* and n.hop # 0x7F, and at 0x7F when there is no such neighbour.
C14_RecomputeHopIsMinimum ==
  [][(~isReference /\ pc = "processing" /\ pc' = "rx1") =>
       myInfo'.hoppingDistance = MinCandidateHop(neighbours)]_vars

\* the state the STOP command of checkSerialCommands leaves behind
RoutingStateCleared ==
  /\ neighbourCount = 0
  /\ neighbours = ResetNeighbours
  /\ myInfo.hoppingDistance = ResetHop(isReference)
  /\ forwardQueue.count = 0
  /\ pdrNodeCount = 0
  /\ pdrStats = [i \in PdrIndex |-> ZeroPdrNodeStats]
  /\ ~cycleValidated

\* C15: pause. Once a STOP command of either control channel has taken effect
\* and for as long as the scheduler stays disabled, the neighbour table is
\* empty, hop is 0x7F (0 for the gateway), the forward queue is empty, the PDR
\* counters are cleared and cycle_validated is false; the command leaves the
\* wall-clock sync reference as it was.
C15_PausedStateCleared ==
  /\ [](~tdmaEnabled => RoutingStateCleared)
  /\ [][(tdmaEnabled /\ ~tdmaEnabled') => timeSynced' = timeSynced]_vars


\* C16: resume. After a STOP followed by a START the node originates nothing and
\* transmits no Own frame until cycle validation has been earned again after
\* the START; nothing pending from before the STOP is sent as Own.
C16_ResumeNeedsValidation ==
  [][/\ MintStep => ~resumed'
     /\ OwnFrameStep => ~resumed]_vars


\* C17: end-to-end forward path. The frame the gateway accepts from relay 2,
\* for a payload leaf 5 originated and relays 4 and 2 forwarded, carries the
\* original payload bytes, origin id and message id unchanged, the path
\* <<5, 4, 2>> and hop count 3 (the number of transmissions).
C17_ForwardPathPreserves ==
  route.stage = "delivered" =>
    /\ route.received.origSender = PathIds[1]
    /\ route.received.msgId = MessageIdOf(PathIds[1], route.input.seq)
    /\ route.received.tracking = PathIds
    /\ route.received.hopCount = PathLen
    /\ route.received.sensorDataReceived = route.input.payload


\* the node accepts frame f of the peer in this step
LinkAccepts(f) ==
  /\ RxFrame(f, MaxRxPerPhase)
  /\ ~rssiRejected(f.rssi)
  /\ FindSender(neighbours, f.p.senderId).found

\* C18: bidirectional-link confirmation. After the node accepts a frame of a
\* neighbour, that neighbour's am-I-listed flag is true if and only if the
\* node's id is in the neighbour list the sender advertised in that frame.
C18_ListedIffAdvertised ==
  [][\A f \in LinkFrames :
       LinkAccepts(f) =>
         (neighbours'[FindSender(neighbours, f.p.senderId).idx].amIListedAsNeighbour
            = f.listed)]_vars


\* the entry of origin nodeId among the count tracked entries of stats
PdrEntryOf(stats, count, nodeId) ==
  stats[CHOOSE i \in PdrIndex : i < count /\ stats[i].nodeId = nodeId]

\* C19: PDR update rule. The first data frame of an origin sets last_seq = seq,
\* expected = 1, received = 1; every later one, with D = (seq - last_seq) mod
\* 256, does received += 1, expected += D, gaps += max(0, D - 1), last_seq = seq.
C19_PdrUpdateRule ==
  [][\A seqNum \in PdrSeqNums :
       GatewaySink(PEER_ID, seqNum) =>
         LET new == PdrEntryOf(pdrStats', pdrNodeCount', PEER_ID)
         IN IF pdrNodeCount = 0
            THEN /\ new.lastSeqReceived = seqNum
                 /\ new.expectedCount = 1
                 /\ new.receivedCount = 1
            ELSE LET old == PdrEntryOf(pdrStats, pdrNodeCount, PEER_ID)
                     D == (seqNum + 256 - old.lastSeqReceived) % 256
                 IN /\ new.receivedCount = U16(old.receivedCount + 1)
                    /\ new.expectedCount = U16(old.expectedCount + D)
                    /\ new.gapCount = U16(old.gapCount + (IF D > 1 THEN D - 1 ELSE 0))
                    /\ new.lastSeqReceived = seqNum]_vars


\* C20: RSSI floor. Processing a received frame whose RSSI is below
\* RSSI_THRESHOLD_DBM leaves the neighbour table, hop, stratum, sync source and
\* validity counter, cycle and cycle-validation state, the forward queue, the
\* own-message state and the gateway's PDR state unchanged, and the RX window
\* continues as after a timeout, with no timing adjustment.
C20_WeakFrameChangesNothing ==
  [][\A f \in FloorFrames :
       (f.rssi < RSSI_THRESHOLD_DBM /\ RxFrame(f, MaxRxPerPhase)) =>
         /\ UNCHANGED <<nodeVars, nbrVars, forwardQueue, ownVars, cycleVars, pdrVars,
                        txBuffer, pc>>
         /\ ~timingAdjusted(rxOutputFor(f))]_vars

\* an RX phase in which the one frame delivered was rejected (every neighbour
\* in the table has aged since it was last heard), with neighbours in the
\* table and a message in the forward queue
C20_WeakFrameIgnored ==
  /\ pc \in {"rx1", "rx2"}
  /\ rxInPhase = MaxRxPerPhase
  /\ neighbourCount > 0
  /\ forwardQueue.count > 0
  /\ \A i \in NbrIndex : neighbours[i].id # 0 => neighbours[i].activityCounter > 0

\* C21: stratum adoption. On every accepted frame a non-gateway node adopts
\* (proposed, sender) and resets the validity counter to SYNC_VALID_CYCLES
\* exactly when proposed < its stratum, or proposed = its stratum and the
\* sender is its sync source; otherwise stratum, source and counter stay.
C21_StratumAdoption ==
  [][\A f \in BeaconFrames :
       (~isReference /\ LinkAccepts(f)) =>
         LET s == f.p.senderId
             proposed == IF s = GATEWAY_ID THEN STRATUM_DIRECT
                         ELSE Min(f.p.senderStratum + 1, STRATUM_INDIRECT)
         IN IF \/ proposed < myInfo.syncStratum
               \/ proposed = myInfo.syncStratum /\ myInfo.syncSource = s
            THEN /\ myInfo'.syncStratum = proposed
                 /\ myInfo'.syncSource = s
                 /\ myInfo'.syncValidCounter = SYNC_VALID_CYCLES
            ELSE /\ myInfo'.syncStratum = myInfo.syncStratum
                 /\ myInfo'.syncSource = myInfo.syncSource
                 /\ myInfo'.syncValidCounter = myInfo.syncValidCounter]_vars

\* C22: no Direct via an intermediary. On a non-gateway node stratum Direct
\* implies that the sync source is the gateway, and accepting a frame of a
\* non-gateway sender never brings the stratum below Indirect.
C22_NoDirectViaIntermediary ==
  /\ [](~isReference =>
          (myInfo.syncStratum = STRATUM_DIRECT => myInfo.syncSource = GATEWAY_ID))
  /\ [][\A f \in FloorFrames :
          (~isReference /\ f.p.senderId # GATEWAY_ID /\ LinkAccepts(f)) =>
            (myInfo'.syncStratum < STRATUM_INDIRECT =>
               /\ myInfo'.syncStratum = myInfo.syncStratum
               /\ myInfo'.syncSource = myInfo.syncSource)]_vars

\* the node has just taken stratum Indirect from the peer, which is Direct
C22_IndirectFromDirectPeer ==
  /\ ~isReference
  /\ pc \in {"rx1", "rx2"}
  /\ rxInPhase = MaxRxPerPhase
  /\ myInfo.syncStratum = STRATUM_INDIRECT
  /\ myInfo.syncSource = PEER_ID
  /\ myInfo.syncValidCounter = SYNC_VALID_CYCLES

\* the occupied table slots that pass the candidate filter of selectBestNextHop
NextHopCandidates ==
  {i \in NbrIndex : /\ neighbours[i].id # 0
                    /\ neighbours[i].rssi >= RSSI_THRESHOLD_DBM
                    /\ neighbours[i].amIListedAsNeighbour
                    /\ neighbours[i].hoppingDistance < myInfo.hoppingDistance
                    /\ neighbours[i].hoppingDistance # HOP_UNKNOWN}

\* neighbour a is strictly preferred to neighbour b as next hop
PreferredNextHop(a, b) ==
  LET goodA == a.rssi > MIN_RSSI_THRESHOLD
      goodB == b.rssi > MIN_RSSI_THRESHOLD
  IN \/ goodA /\ ~goodB
     \/ /\ goodA = goodB
        /\ \/ a.hoppingDistance < b.hoppingDistance
           \/ /\ a.hoppingDistance = b.hoppingDistance
              /\ \/ a.rssi > b.rssi
                 \/ a.rssi = b.rssi /\ a.snr > b.snr

\* C23: at the start of the TX phase selectBestNextHop returns 0 if and only
\* if no neighbour in the table passes the candidate filter, and otherwise the
\* id of a candidate to which no other candidate is preferred (good RSSI
\* first, then lower hop, then higher RSSI, then higher SNR).
C23_NextHopIsBestCandidate ==
  pc = "tx" =>
    LET r == selectBestNextHop(neighbours, neighbourIndices, neighbourCount,
                               myInfo.hoppingDistance)
    IN /\ (r = 0) <=> (NextHopCandidates = {})
       /\ r # 0 =>
            \E i \in NextHopCandidates :
              /\ neighbours[i].id = r
              /\ \A j \in NextHopCandidates : ~PreferredNextHop(neighbours[j], neighbours[i])

\* selectBestNextHop() finds no next hop in the current state
NoNextHop ==
  selectBestNextHop(neighbours, neighbourIndices, neighbourCount, myInfo.hoppingDistance) = 0

\* C24: routing failure. In a cycle in which no next hop is available the
\* node does not originate, and its TX phase dequeues no forward entry,
\* consumes no pending own payload and sends a header-only frame: the queue
\* and the pending payload are kept for a later cycle.
C24_NoNextHopNoData ==
  [][/\ (MintStep /\ NoNextHop) => FALSE
     /\ (pc = "tx" /\ pc' = "send" /\ NoNextHop) =>
          /\ forwardQueue' = forwardQueue
          /\ hasSensorDataToSend' = hasSensorDataToSend
          /\ ParseRxBuffer(txBuffer').dataMode = DATA_MODE_NONE]_vars

\* C25: the gateway's sink. Processing a received data frame whose
\* hop_decision_target is not the gateway leaves the gateway's PDR state
\* (pdrStats, pdrNodeCount) unchanged.
C25_OverheardFrameNotSunk ==
  [][\A f \in FloorFrames :
       (/\ isReference
        /\ f.p.dataMode \in {DATA_MODE_OWN, DATA_MODE_FORWARD}
        /\ f.p.hopDecisionTarget # myInfo.id
        /\ RxFrame(f, MaxRxPerPhase)) => UNCHANGED pdrVars]_vars

\* a step that disables the scheduler and clears routing state (neighbour
\* table and count, hop, cycle validation) that was not clear already
StopResetStep ==
  /\ tdmaEnabled /\ ~tdmaEnabled'
  /\ <<neighbours, neighbourCount, myInfo.hoppingDistance, cycleValidated,
       cycleValidationCount, lastReceivedCycle>>' #
     <<neighbours, neighbourCount, myInfo.hoppingDistance, cycleValidated,
       cycleValidationCount, lastReceivedCycle>>

\* C26: single-actor state access. Routing state is cleared on STOP only by the
\* event loop at the top of loop(): no reset happens while the cycle is in its
\* processing, RX or TX phases or while a transmission is in progress.
C26_ResetOnlyAtLoopTop ==
  [][StopResetStep => pc = "loop"]_vars

\* the occupied entries of the neighbour table
OccupiedEntries == {i \in NbrIndex : neighbours[i].id # 0}

\* the table has no free entry and none for the sender of frame f
TableFullFor(f) ==
  /\ OccupiedEntries = NbrIndex
  /\ \A i \in NbrIndex : neighbours[i].id # f.p.senderId

C28_EvictedAtTwentiethTick ==
  [][/\ (pc = "processing" /\ pc' # "processing") =>
          \A i \in NbrIndex :
            neighbours[i].id # 0 =>
              IF \/ neighbours[i].activityCounter + 1 >= 20
                 \/ neighbours[i].rssi < RSSI_THRESHOLD_DBM
              THEN neighbours'[i].id = 0
              ELSE neighbours'[i] = [neighbours[i] EXCEPT !.activityCounter = @ + 1]
     /\ \A f \in TableFrames :
          (f.rssi >= RSSI_THRESHOLD_DBM /\ ~TableFullFor(f) /\ RxFrame(f, MaxTableRx)) =>
            \E i \in NbrIndex : /\ neighbours'[i].id = f.p.senderId
                                /\ neighbours'[i].activityCounter = 0]_vars

C30_FifoFailOnFull ==
  /\ [](LET n == Len(queueLog.returned)
        IN /\ n <= Len(queueLog.accepted)
           /\ \A k \in 1..n : queueLog.returned[k] = queueLog.accepted[k]
           /\ forwardQueue.count = Len(queueLog.accepted) - n
           /\ forwardQueue.count <= 8
           /\ \A k \in 1..forwardQueue.count :
                forwardQueue.slots[(forwardQueue.tail + k - 1) % FORWARD_QUEUE_SIZE]
                  = queueLog.accepted[n + k])
  /\ [][/\ (queueLog'.calls # queueLog.calls /\ forwardQueue.count = 8) =>
             (~queueLog'.ok /\ forwardQueue' = forwardQueue)
        /\ (queueLog'.calls # queueLog.calls /\ forwardQueue.count < 8) => queueLog'.ok
        /\ (queueLog'.calls = queueLog.calls /\ forwardQueue.count = 0) =>
             (~queueLog'.ok /\ forwardQueue' = forwardQueue
              /\ queueLog'.returned = queueLog.returned)
        /\ (queueLog'.calls = queueLog.calls /\ forwardQueue.count > 0) => queueLog'.ok]_vars

\* the queue, its indices wrapped around, is full and has just refused a message
C30_FullQueueRefusedMessage ==
  /\ forwardQueue.count = FORWARD_QUEUE_SIZE
  /\ ~queueLog.ok
  /\ Len(queueLog.returned) > 0
  /\ queueLog.calls > Len(queueLog.accepted)

C32_TimingReconstruction ==
  /\ [](rxWindow.phase = "closed" => rxWindow.remaining <= 0)
  /\ [][/\ rxWindow'.last = "frame" =>
             LET s == rxWindow'.senderSlot
                 my == rxWindow.mySlot
                 k == (my - s - 1) % Nslot
             IN /\ k \in 0..(Nslot - 1)
                /\ rxWindow'.remaining =
                     IF rxWindow.phase = "before"
                     THEN IF my > s THEN k * Tslot_us + slotOffset_us
                          ELSE k * Tslot_us + slotOffset_us + Tprocessing_us
                     ELSE (Nslot - s - 1) * Tslot_us + slotOffset_us
        /\ rxWindow'.last = "timeout" =>
             rxWindow'.remaining = rxWindow.duration - rxWindow'.elapsed
        /\ (rxWindow.phase \in {"before", "after"} /\ rxWindow.remaining > 0) =>
             rxWindow'.phase = rxWindow.phase]_vars

\* in RX phase 1 the node (slot 2) has heard the sender of slot 5: the window
\* was set by the wrap-around case, 4 slots and the processing phase ahead
C32_WrapAroundCase ==
  /\ rxWindow.phase = "before"
  /\ rxWindow.last = "frame"
  /\ rxWindow.mySlot = 2
  /\ rxWindow.senderSlot = 5
  /\ rxWindow.remaining = 4 * Tslot_us + slotOffset_us + Tprocessing_us

\* C33: latency sampling at the gateway. A latency sample is recorded for a
\* data frame if and only if the embedded origin timestamp ts is > 0 and
\* 0 < now - ts <= 3,600,000,000 microseconds; a frame whose sample is
\* discarded changes no latency statistic and no entry of the latency cache,
\* and the PDR update of a frame does not depend on its timestamp.
C33_LatencySampleRule ==
  [][\A seqNum \in PdrSeqNums, ts \in TxTimestamps :
       LatencySink(seqNum, ts) =>
         LET d == TimeDiff(GatewayNow, ts)
             valid == /\ TimePositive(ts)
                      /\ TimePositive(d)
                      /\ (d.s < 3600 \/ (d.s = 3600 /\ d.us = 0))
             r == updatePdrStats(pdrStats, pdrNodeCount, PEER_ID,
                                 MessageIdOf(PEER_ID, seqNum))
         IN /\ valid <=>
                 latency'.totalLatencyCalculations = latency.totalLatencyCalculations + 1
            /\ ~valid => latency' = latency
            /\ pdrStats' = r.pdrStats /\ pdrNodeCount' = r.pdrNodeCount]_vars

\* C34: the decoder clamps neighbour_count to 4, so every decoded neighbour
\* entry is read from bytes 12..27 of the frame; no decoded entry, and so no
\* am-I-listed decision, comes from the data-section bytes 28..47.
C34_NeighboursOnlyFromBytes12To27 ==
  codec # NoCodec =>
    LET p == codec.parsed
    IN /\ p.numNeighborsInPacket <= 4
       /\ \A k \in 1..p.numNeighborsInPacket : 15 + 4 * (k - 1) <= 27
       /\ \A myId \in {DEVICE_ID, PEER_ID, FAR_ID} :
            AmIListed(p, myId) <=>
              \E k \in 1..4 : /\ k <= codec.bytes[7] % 8
                              /\ codec.bytes[12 + 4 * (k - 1)] * 256
                                   + codec.bytes[13 + 4 * (k - 1)] = myId

\* C35: self-healing of the sync tree. If from some point on no node receives
\* a frame of the gateway, then eventually every non-gateway node has stratum
\* Local and keeps it: non-gateway nodes cannot keep one another at Direct or
\* Indirect by refreshing each other's sync validity counter.
C35_SyncTreeHeals ==
  (<>(~net.gatewayInRange)) =>
    <>[](\A n \in NetNodes : net.mi[n].syncStratum = STRATUM_LOCAL)

\* C36: index-list consistency. Whenever the node is about to build a frame
\* and select a next hop (start of the TX phase), the first neighbourCount
\* elements of neighbourIndices are pairwise distinct and each refers to an
\* occupied entry of the table, so that every occupied entry, also one added
\* since the last tick, is in the list.
C36_IndexListConsistent ==
  pc = "tx" =>
    /\ \A i \in NbrIndex : i < neighbourCount => neighbours[neighbourIndices[i]].id # 0
    /\ \A i, j \in NbrIndex :
         (i < neighbourCount /\ j < neighbourCount /\ i # j) =>
           neighbourIndices[i] # neighbourIndices[j]
    /\ \A k \in NbrIndex :
         neighbours[k].id # 0 =>
           \E i \in NbrIndex : i < neighbourCount /\ neighbourIndices[i] = k

\* C37: cycle validation is eventually earned. A non-gateway node that in
\* every cycle accepts a frame of each of its lower-hop neighbours, all of
\* them advertising the current cycle value, has cycleValidated true after
\* finitely many cycles, however many upstream neighbours it hears per cycle.
C37_CycleValidationEarned == <>cycleValidated

\* C38: every MessageId a node mints is transmitted in exactly one Own frame.
\* A step that mints finds no own payload pending (none is overwritten), a
\* pending own payload stops being pending only in the TX step that sends it
\* as Own with its MessageId, and the sequence counter only ever advances by
\* 1 modulo 256, so consecutive Own frames carry consecutive sequence numbers.
C38_MintedSentExactlyOnce ==
  [][/\ MintStep => ~hasSensorDataToSend
     /\ (hasSensorDataToSend /\ ~hasSensorDataToSend') =>
          (OwnFrameStep /\ ParseRxBuffer(txBuffer').msgId = ownMessageId)
     /\ messageIdCounter' # messageIdCounter =>
          messageIdCounter' = (messageIdCounter + 1) % 256]_vars

\* C39: bidirectional links are eventually confirmed. The node and a
\* neighbour accept each other's frame in every cycle; after finitely many
\* cycles the node's entry for the neighbour has the am-I-listed flag, and
\* every frame the node sends lists the neighbour (so the neighbour's entry
\* for the node has the flag too), whatever the number and the hop distances
\* of the node's other neighbours.
C39_LinkEventuallyConfirmed ==
  /\ <>[](\E i \in NbrIndex : /\ neighbours[i].id = CrowdFarNeighbour
                              /\ neighbours[i].amIListedAsNeighbour)
  /\ <>[](pc = "send" => AmIListed(SentFrame, CrowdFarNeighbour))

\* C40: exactly-once accounting on a lossless channel. In a stable topology
\* in which no frame is lost and no node is reset the gateway counts every
\* message of a leaf exactly once: for every origin received equals expected
\* and gaps is 0, also when the gateway hears nodes other than the last relay.
C40_ExactlyOnceAccounting ==
  \A i \in PdrIndex :
    i < pdrNodeCount =>
      /\ pdrStats[i].receivedCount = pdrStats[i].expectedCount
      /\ pdrStats[i].gapCount = 0
      /\ pdrStats[i].receivedCount <= pdrStats[i].lastSeqReceived

====
